---------------------------- MODULE Spec2Model ----------------------------
(***************************************************************************)
(* A model of the bnf_sampler constrained-decoding engine: the grammar     *)
(* preprocessor (src/bnf_sampler/src/grammar.rs), the terminals trie       *)
(* (src/sampler/src/trie.rs, src/src/trie.rs) and the sampler              *)
(* (src/bnf_sampler/src/sampler.rs).                                       *)
(*                                                                         *)
(* Conventions.  A byte is a one-character string; a byte string (token,   *)
(* terminal) is a sequence of bytes.  A Vec is a sequence whose Rust index *)
(* i is the TLA+ index i + 1; every index that the code computes           *)
(* (bytes_index, stack_offset, remaining_bytes_start, failed index) keeps  *)
(* its 0-based Rust value.  A stack is a Vec whose last element is the     *)
(* top.                                                                    *)
(***************************************************************************)
EXTENDS Integers, Sequences, FiniteSets, TLC

\* ------------------------------------------------------------------------
\* Bounds of the exploration
\* ------------------------------------------------------------------------

\* number of API calls explored from construction
MaxCalls == 3

\* ------------------------------------------------------------------------
\* Bytes and byte strings
\* ------------------------------------------------------------------------

\* the bytes that occur in the grammars and vocabularies below, in
\* increasing byte value (the order qp_trie iterates keys in)
Alphabet == <<"\"", "1", "2", "3", "4", "A", "C", "G", "T", "a", "b", "c", "d", "x">>

ByteOrd(b) == CHOOSE i \in 1..Len(Alphabet) : Alphabet[i] = b

Min(x, y) == IF x <= y THEN x ELSE y

\* s[from..] of Rust, from 0-based
Tail0(s, from) == SubSeq(s, from + 1, Len(s))

\* s[..to] of Rust, to 0-based and exclusive
Head0(s, to) == SubSeq(s, 1, to)

IsPrefix(p, s) == Len(p) <= Len(s) /\ SubSeq(s, 1, Len(p)) = p

\* memmem::find(haystack, needle).is_some()
Contains(haystack, needle) ==
    \E i \in 0..(Len(haystack) - Len(needle)) :
        SubSeq(haystack, i + 1, i + Len(needle)) = needle

\* length of the longest common prefix of two byte strings
RECURSIVE CommonLen(_, _)
CommonLen(x, y) ==
    IF x = <<>> \/ y = <<>> \/ Head(x) # Head(y) THEN 0
    ELSE 1 + CommonLen(Tail(x), Tail(y))

\* byte-wise lexicographic order, a proper prefix first
RECURSIVE LexLess(_, _)
LexLess(x, y) ==
    IF y = <<>> THEN FALSE
    ELSE IF x = <<>> THEN TRUE
    ELSE IF Head(x) # Head(y) THEN ByteOrd(Head(x)) < ByteOrd(Head(y))
    ELSE LexLess(Tail(x), Tail(y))

RECURSIVE Reverse(_)
Reverse(s) == IF s = <<>> THEN <<>> ELSE Append(Reverse(Tail(s)), Head(s))

RECURSIVE SeqToSet(_)
SeqToSet(s) == IF s = <<>> THEN {} ELSE {Head(s)} \cup SeqToSet(Tail(s))

\* the elements of a finite set of byte strings in LexLess order
RECURSIVE SortBytes(_)
SortBytes(S) ==
    IF S = {} THEN <<>>
    ELSE LET m == CHOOSE x \in S : \A y \in S \ {x} : LexLess(x, y)
         IN  <<m>> \o SortBytes(S \ {m})


\* ------------------------------------------------------------------------
\* Vocabulary (src/bnf_sampler/src/vocabulary.rs)
\* ------------------------------------------------------------------------

\* A vocabulary is given as the sequence of its token byte strings; the
\* token at Rust index i has token id i.
TokenIds(vocab) == 0..(Len(vocab) - 1)

\* Vocabulary::id_to_token
id_to_token(vocab, id) == vocab[id + 1]

\* Vocabulary::token_to_id, a qp_trie::Trie: the keys in iteration order
token_to_id_keys(vocab) == SortBytes(SeqToSet(vocab))

\* Vocabulary::token_to_id lookup of a key that is in the trie
token_to_id(vocab, token) == CHOOSE id \in TokenIds(vocab) : vocab[id + 1] = token

\* qp_trie::Trie::longest_common_prefix: the longest prefix of key that is
\* a prefix of some key of the trie
longest_common_prefix(keys, key) ==
    LET n == IF keys = {} THEN 0
             ELSE CHOOSE m \in 0..Len(key) :
                    /\ \E k \in keys : CommonLen(k, key) = m
                    /\ \A k \in keys : CommonLen(k, key) <= m
    IN  Head0(key, n)

\* qp_trie::Trie::iter_prefix: the keys that start with prefix, in order
iter_prefix(keys, prefix) == SortBytes({k \in keys : IsPrefix(prefix, k)})

\* ------------------------------------------------------------------------
\* Terminals trie (src/sampler/src/trie.rs)
\* ------------------------------------------------------------------------

\* Option<u16>::None of TrieNode::negative_bytes_index
NoNegativeIndex == 0 - 1

\* TrieNode; has_value/value model Option<Box<[u8]>>, children maps a byte
\* to a TrieNodeID (the 0-based index into the arena)
NewTrieNode(index, can_stop) ==
    [index |-> index, can_stop |-> can_stop,
     negative_bytes_index |-> NoNegativeIndex,
     has_value |-> FALSE, value |-> <<>>, children |-> <<>>]

\* TerminalsTrie::new
EmptyTrie == [roots |-> <<>>, arena |-> <<>>]

\* TerminalsTrie::get
TrieGet(trie, node_id) == trie.arena[node_id + 1]

\* the loop of TerminalsTrie::add over the bytes of the terminal: returns
\* the arena and the node reached
RECURSIVE AddWalk(_, _, _, _)
AddWalk(arena, current_node_id, terminal, can_stop) ==
    IF terminal = <<>> THEN [arena |-> arena, node |-> current_node_id]
    ELSE LET i == Head(terminal)
             current == arena[current_node_id + 1]
         IN  IF i \in DOMAIN current.children
             THEN AddWalk(arena, current.children[i], Tail(terminal), can_stop)
             ELSE LET new_node_id == Len(arena)
                      arena1 == Append(arena, NewTrieNode(current.index + 1, can_stop))
                      arena2 == [arena1 EXCEPT ![current_node_id + 1].children =
                                     (i :> new_node_id) @@ current.children]
                  IN  AddWalk(arena2, new_node_id, Tail(terminal), can_stop)

\* A variant of add that puts the value on the root of the nonterminal, not
\* on the node reached
TrieAddMarkingRoot(trie, terminal, nonterminal_id, can_stop) ==
    LET arena1 == Append(trie.arena, NewTrieNode(0, can_stop))
        roots1 == IF nonterminal_id \in DOMAIN trie.roots THEN trie.roots
                  ELSE (nonterminal_id :> (Len(arena1) - 1)) @@ trie.roots
        w      == AddWalk(arena1, roots1[nonterminal_id], terminal, can_stop)
    IN  [roots |-> roots1,
         arena |-> [w.arena EXCEPT ![roots1[nonterminal_id] + 1].has_value = TRUE,
                                   ![roots1[nonterminal_id] + 1].value = terminal]]

\* TerminalsTrie::add.  The argument of or_insert is evaluated before the
\* lookup, so a root candidate is pushed on the arena by every call and is
\* left unreferenced when the nonterminal already has a root.
TrieAdd(trie, terminal, nonterminal_id, can_stop) ==
    LET arena1 == Append(trie.arena, NewTrieNode(0, can_stop))
        roots1 == IF nonterminal_id \in DOMAIN trie.roots THEN trie.roots
                  ELSE (nonterminal_id :> (Len(arena1) - 1)) @@ trie.roots
        w      == AddWalk(arena1, roots1[nonterminal_id], terminal, can_stop)
    IN  [roots |-> roots1,
         arena |-> [w.arena EXCEPT ![w.node + 1].has_value = TRUE,
                                   ![w.node + 1].value = terminal]]

\* the order in which a child map (a HashMap) is iterated: unspecified by
\* the code, fixed here to increasing byte value
RECURSIVE SortedBytesOf(_)
SortedBytesOf(S) ==
    IF S = {} THEN <<>>
    ELSE LET m == CHOOSE x \in S : \A y \in S : ByteOrd(x) <= ByteOrd(y)
         IN  <<m>> \o SortedBytesOf(S \ {m})

\* TerminalsTrieIter::next, run to exhaustion: a depth-first walk below a
\* node that yields value[initial_index..] of every value-marked node
RECURSIVE TrieIterFrom(_, _, _, _)
TrieIterFrom(trie, node_id, keys, initial_index) ==
    IF keys = <<>> THEN <<>>
    ELSE LET v     == TrieGet(trie, node_id).children[Head(keys)]
             child == TrieGet(trie, v)
             here  == IF child.has_value
                      THEN <<Tail0(child.value, initial_index)>> ELSE <<>>
         IN  here
             \o TrieIterFrom(trie, v, SortedBytesOf(DOMAIN child.children), initial_index)
             \o TrieIterFrom(trie, node_id, Tail(keys), initial_index)

\* TerminalsTrie::iter
TrieIter(trie, start_node_id) ==
    TrieIterFrom(trie, start_node_id,
                 SortedBytesOf(DOMAIN TrieGet(trie, start_node_id).children),
                 TrieGet(trie, start_node_id).index)

\* ------------------------------------------------------------------------
\* Grammar preprocessing (src/bnf_sampler/src/grammar.rs)
\* ------------------------------------------------------------------------

\* utils::ANY_NONTERMINAL_NAME
ANY_NONTERMINAL_NAME == "any!"

\* U8Term / bnf::Term; a record of one shape for both variants
Terminal(bytes) == [t |-> "Terminal", bytes |-> bytes, name |-> ""]

Nonterminal(name) == [t |-> "Nonterminal", bytes |-> <<>>, name |-> name]

\* The parsed schema (the result of bnf's parser, which is not part of the
\* repository): a sequence of productions [lhs, rhs], rhs a sequence of
\* alternatives, an alternative a sequence of terms.  Terminal texts hold no
\* escape sequence, so utils::fix_utf8_escape yields their bytes as written.

\* Grammar::new, lines 81-103: one right-hand side with adjacent terminals
\* concatenated
RECURSIVE MergeTerms(_, _, _)
MergeTerms(terms, temp_vec, temp_string) ==
    IF terms = <<>>
    THEN IF temp_string.some THEN Append(temp_vec, Terminal(temp_string.v))
         ELSE temp_vec
    ELSE LET i == Head(terms)
         IN  IF i.t = "Terminal"
             THEN MergeTerms(Tail(terms), temp_vec,
                             [some |-> TRUE, v |-> temp_string.v \o i.bytes])
             ELSE MergeTerms(Tail(terms),
                             Append(IF temp_string.some
                                    THEN Append(temp_vec, Terminal(temp_string.v))
                                    ELSE temp_vec, Nonterminal(i.name)),
                             [some |-> FALSE, v |-> <<>>])

\* insertion of a sequence of values into a hash set, kept as a sequence
\* without repetitions
RECURSIVE Dedup(_, _)
Dedup(s, acc) ==
    IF s = <<>> THEN acc
    ELSE Dedup(Tail(s), IF \E k \in 1..Len(acc) : acc[k] = Head(s)
                        THEN acc ELSE Append(acc, Head(s)))

RECURSIVE MapMerge(_)
MapMerge(alts) ==
    IF alts = <<>> THEN <<>>
    ELSE <<MergeTerms(Head(alts), <<>>, [some |-> FALSE, v |-> <<>>])>>
         \o MapMerge(Tail(alts))

\* the left-hand sides of the productions in order of first occurrence
RECURSIVE LhsNames(_)
LhsNames(prods) ==
    IF prods = <<>> THEN <<>>
    ELSE Dedup(<<Head(prods).lhs>> \o LhsNames(Tail(prods)), <<>>)

\* all alternatives of the productions of one left-hand side
RECURSIVE AltsOf(_, _)
AltsOf(prods, name) ==
    IF prods = <<>> THEN <<>>
    ELSE (IF Head(prods).lhs = name THEN MapMerge(Head(prods).rhs) ELSE <<>>)
         \o AltsOf(Tail(prods), name)

\* input.contains("<any!>")
AnyPresent(prods) ==
    \E p \in 1..Len(prods) : \E a \in 1..Len(prods[p].rhs) :
        \E k \in 1..Len(prods[p].rhs[a]) :
            prods[p].rhs[a][k] = Nonterminal(ANY_NONTERMINAL_NAME)

\* Grammar::new, lines 49-54: the productions with the empty production of
\* any! added
WithAnyProduction(prods) ==
    IF AnyPresent(prods)
    THEN Append(prods, [lhs |-> ANY_NONTERMINAL_NAME, rhs |-> <<>>])
    ELSE prods

\* Grammar::new, lines 71-104: simplified_grammar, from a name to its set
\* of right-hand sides (a sequence without repetitions; see ExpressionsIter
\* for the order in which the set is iterated)
SimplifiedGrammar(prods) ==
    [name \in SeqToSet(LhsNames(prods)) |-> Dedup(AltsOf(prods, name), <<>>)]

\* Grammar::new, lines 105-109: nonterminal_to_terminal_id.  The ids follow
\* the iteration order of a hash map; the model numbers the names in order
\* of first occurrence.
NonterminalToId(prods) ==
    LET names == LhsNames(prods)
    IN  [name \in SeqToSet(names) |->
            (CHOOSE i \in 1..Len(names) : names[i] = name) - 1]

\* one right-hand side [Terminal(k)] per key
RECURSIVE SingleTerminalAlts(_)
SingleTerminalAlts(keys) ==
    IF keys = <<>> THEN <<>>
    ELSE <<(<<Terminal(Head(keys))>>)>> \o SingleTerminalAlts(Tail(keys))

\* terminals_arena.add(key, nonterminal, can_stop) for every key
RECURSIVE AddAll(_, _, _, _)
AddAll(trie, keys, nonterminal_id, can_stop) ==
    IF keys = <<>> THEN trie
    ELSE AddAll(TrieAdd(trie, Head(keys), nonterminal_id, can_stop),
                Tail(keys), nonterminal_id, can_stop)

\* The except! nonterminals of the schemas explored.  The name of such a
\* nonterminal is the text that EXCEPT_LITERAL_REGEX or
\* EXCEPT_NONTERMINAL_REGEX (utils.rs, lines 13-20) matches in the schema;
\* utils::extract_excepted (lines 25-27) captures what stands between the
\* quotes or the brackets.  These maps give, for each name, what is
\* captured: the bytes of the literal (fix_utf8_escape of a text without
\* escape sequence) or the name of the nonterminal.
ExceptLiteralName == "except!('\"')"

ExceptNonterminalName == "except!([q])"

ExceptUndefinedName == "except!([undefined])"

ExceptRunName == "except!('aab')"

ExceptedLiteral == (ExceptLiteralName :> <<"\"">>) @@ (ExceptRunName :> <<"a", "a", "b">>)

ExceptedNonterminal == (ExceptNonterminalName :> "q") @@ (ExceptUndefinedName :> "undefined")

\* the names of the nonterminals that occur in the right-hand sides
TermNames(prods) ==
    UNION { UNION { {prods[p].rhs[a][k].name : k \in {x \in 1..Len(prods[p].rhs[a]) : prods[p].rhs[a][x].t = "Nonterminal"}} :
                      a \in 1..Len(prods[p].rhs) } : p \in 1..Len(prods) }

\* the names of names that occur in the schema, in the order of names
RECURSIVE Occurring(_, _)
Occurring(names, prods) ==
    IF names = <<>> THEN <<>>
    ELSE (IF Head(names) \in TermNames(prods) THEN <<Head(names)>> ELSE <<>>)
         \o Occurring(Tail(names), prods)

\* Grammar::new, lines 57-70: excepts, the matches of the two expressions in
\* the schema.  It is a hash set; the model iterates it in the order given
\* here.
LiteralExcepts(prods) == Occurring(<<ExceptLiteralName, ExceptRunName>>, prods)

NonterminalExcepts(prods) == Occurring(<<ExceptNonterminalName, ExceptUndefinedName>>, prods)

\* lines 59-65: an empty production for every except!('literal')
RECURSIVE EmptyProductions(_)
EmptyProductions(names) ==
    IF names = <<>> THEN <<>>
    ELSE <<[lhs |-> Head(names), rhs |-> <<>>]>> \o EmptyProductions(Tail(names))

WithExceptProductions(prods, input) == prods \o EmptyProductions(LiteralExcepts(input))

\* the predicate of add_tokens, lines 118-126, for excepted_literal =
\* Some(excepted), a set of byte strings
ExceptPredicate(haystack, excepted) ==
    \A x \in excepted : haystack # x /\ ~Contains(haystack, x)

\* the keys that the predicate lets pass, in order
RECURSIVE FilterKeys(_, _)
FilterKeys(keys, excepted) ==
    IF keys = <<>> THEN <<>>
    ELSE (IF ExceptPredicate(Head(keys), excepted) THEN <<Head(keys)>> ELSE <<>>)
         \o FilterKeys(Tail(keys), excepted)

\* add_tokens with excepted_literal = Some(excepted) (Grammar::new, lines
\* 128-156): the right-hand sides are the tokens that pass the predicate,
\* the trie gets every token, the token ids are those of the tokens that
\* pass
AddTokensExcept(st, vocab, ids, nonterminal, excepted) ==
    [simplified |-> [n \in DOMAIN st.simplified \cup {nonterminal} |->
                        IF n = nonterminal
                        THEN SingleTerminalAlts(FilterKeys(token_to_id_keys(vocab), excepted))
                        ELSE st.simplified[n]],
     trie       |-> AddAll(st.trie, token_to_id_keys(vocab), ids[nonterminal], FALSE),
     token_ids  |-> (ids[nonterminal] :>
                        {id \in TokenIds(vocab) : ExceptPredicate(id_to_token(vocab, id), excepted)})
                    @@ st.token_ids]

\* TerminalsTrie::except_terminal (src/sampler/src/trie.rs, lines 106-129),
\* which Grammar::new calls as except_literal: a walk of the whole sub-trie
\* of the nonterminal in which index counts the bytes of terminal matched so
\* far; the node at which terminal is complete gets negative_bytes_index
RECURSIVE ExceptTerminalAt(_, _, _, _)
RECURSIVE ExceptTerminalChildren(_, _, _, _, _)

ExceptTerminalAt(arena, current_node_id, terminal, index) ==
    IF index = Len(terminal)
    THEN ExceptTerminalChildren(
             [arena EXCEPT ![current_node_id + 1].negative_bytes_index = index],
             current_node_id,
             SortedBytesOf(DOMAIN arena[current_node_id + 1].children), terminal, 0)
    ELSE ExceptTerminalChildren(arena, current_node_id,
             SortedBytesOf(DOMAIN arena[current_node_id + 1].children), terminal, index)

ExceptTerminalChildren(arena, current_node_id, keys, terminal, index) ==
    IF keys = <<>> THEN arena
    ELSE ExceptTerminalChildren(
             ExceptTerminalAt(arena, arena[current_node_id + 1].children[Head(keys)],
                              terminal,
                              IF terminal[index + 1] = Head(keys) THEN index + 1
                              ELSE IF terminal[1] = Head(keys) THEN 1
                              ELSE 0),
             current_node_id, Tail(keys), terminal, index)

\* A variant of except_literal that marks no node
ExceptLiteralSkipped(trie, terminal, nonterminal_id) == trie

ExceptLiteral(trie, terminal, nonterminal_id) ==
    [trie EXCEPT !.arena = ExceptTerminalAt(trie.arena, trie.roots[nonterminal_id],
                                            terminal, 0)]

\* A variant of add_tokens for any! that leaves out the tokens with a quote
\* byte, as for except!('"')
AddTokensAnyExceptingQuote(st, vocab, ids) ==
    [AddTokensExcept(st, vocab, ids, ANY_NONTERMINAL_NAME, {<<"\"">>})
        EXCEPT !.trie = ExceptLiteral(@, <<"\"">>, ids[ANY_NONTERMINAL_NAME])]

\* add_tokens with excepted_literal = None (Grammar::new, lines 157-177),
\* applied to the state st = [simplified, trie, token_ids]
AddTokensAny(st, vocab, ids) ==
    LET keys == token_to_id_keys(vocab)
        id   == ids[ANY_NONTERMINAL_NAME]
    IN  [simplified |-> [n \in DOMAIN st.simplified |->
                            IF n = ANY_NONTERMINAL_NAME
                            THEN SingleTerminalAlts(keys)
                            ELSE st.simplified[n]],
         trie       |-> AddAll(st.trie, keys, id, FALSE),
         token_ids  |-> (id :> TokenIds(vocab)) @@ st.token_ids]

\* Grammar::new, lines 199-215: add_tokens and except_literal for every
\* except!('literal') of the schema
RECURSIVE AddLiteralExcepts(_, _, _, _)
AddLiteralExceptsStep(st, vocab, ids, names, st1) ==
    AddLiteralExcepts([st1 EXCEPT !.trie = ExceptLiteral(st1.trie, ExceptedLiteral[Head(names)],
                                                        ids[Head(names)])],
                      vocab, ids, Tail(names))

AddLiteralExcepts(st, vocab, ids, names) ==
    IF names = <<>> THEN st
    ELSE AddLiteralExceptsStep(st, vocab, ids, names,
             AddTokensExcept(st, vocab, ids, Head(names), {ExceptedLiteral[Head(names)]}))

\* A variant of the test of lines 238-244 that looks at the last term of a
\* right-hand side only
AllEndInTerminal(v) ==
    \A k \in 1..Len(v) : v[k][Len(v[k])].t = "Terminal"

\* Grammar::new, lines 238-244: all right-hand sides are single terminals
AllSingleTerminals(v) ==
    \A k \in 1..Len(v) : Len(v[k]) = 1 /\ v[k][Len(v[k])].t = "Terminal"

\* the values of the right-hand sides of a collapsed nonterminal
RECURSIVE LastValues(_)
LastValues(v) ==
    IF v = <<>> THEN <<>>
    ELSE <<Head(v)[Len(Head(v))].bytes>> \o LastValues(Tail(v))

\* Grammar::new, lines 234-255 with convert_u8terms_to_simplified_expressions
\* (lines 216-233): the names are visited in id order; a nonterminal whose
\* right-hand sides are all single terminals gets them added with
\* can_stop = true and becomes Terminals(root)
RECURSIVE Collapse(_, _, _, _)
Collapse(names, simplified, ids, acc) ==
    IF names = <<>> THEN acc
    ELSE LET k == Head(names)
             v == simplified[k]
         IN  IF AllSingleTerminals(v)
             THEN LET trie1 == AddAll(acc.trie, LastValues(v), ids[k], TRUE)
                  IN  Collapse(Tail(names), simplified, ids,
                               [trie |-> trie1,
                                expr |-> (ids[k] :> [kind |-> "Terminals",
                                                     alts |-> <<>>,
                                                     node |-> trie1.roots[ids[k]]])
                                         @@ acc.expr])
             ELSE Collapse(Tail(names), simplified, ids,
                           [trie |-> acc.trie,
                            expr |-> (ids[k] :> [kind |-> "Expressions",
                                                 alts |-> v, node |-> 0])
                                     @@ acc.expr])

\* Grammar::new, lines 46-286: the Grammar value that is put in the Arc,
\* before the except!([nonterminal]) of the schema are worked in.  panicked
\* tells that Grammar::new has panicked and no Grammar has come to be.
GrammarNew(input, vocab) ==
    LET prods == WithExceptProductions(WithAnyProduction(input), input)
        ids   == NonterminalToId(prods)
        st0   == [simplified |-> SimplifiedGrammar(prods), trie |-> EmptyTrie,
                  token_ids |-> <<>>]
        st1   == IF AnyPresent(input) THEN AddTokensAny(st0, vocab, ids) ELSE st0
        st2   == AddLiteralExcepts(st1, vocab, ids, LiteralExcepts(input))
        c     == Collapse(LhsNames(prods), st2.simplified, ids,
                          [trie |-> st2.trie, expr |-> <<>>])
    IN  [nonterminal_to_terminal_id   |-> ids,
         nonterminal_id_to_expression |-> c.expr,
         terminals_trie               |-> c.trie,
         nonterminal_to_token_ids     |-> st2.token_ids,
         panicked                     |-> FALSE]

\* ------------------------------------------------------------------------
\* The schemas, vocabularies and start nonterminals explored
\* ------------------------------------------------------------------------

\* <dna> ::= <base><dna> | <base><digit>
\* <base> ::= 'A' | 'C' | 'T'      <digit> ::= '1' | '12'
DnaCase ==
    [input |-> << [lhs |-> "dna",
                   rhs |-> << <<Nonterminal("base"), Nonterminal("dna")>>,
                              <<Nonterminal("base"), Nonterminal("digit")>> >>],
                  [lhs |-> "base",
                   rhs |-> << <<Terminal(<<"A">>)>>, <<Terminal(<<"C">>)>>,
                              <<Terminal(<<"T">>)>> >>],
                  [lhs |-> "digit",
                   rhs |-> << <<Terminal(<<"1">>)>>, <<Terminal(<<"1", "2">>)>> >>] >>,
     vocab |-> << <<"A">>, <<"1">>, <<"C", "A", "T">>, <<"A", "1">> >>,
     start |-> "dna"]

\* <s> ::= 'a' 'b' | 'ab' <s>
RepeatCase ==
    [input |-> << [lhs |-> "s",
                   rhs |-> << <<Terminal(<<"a">>), Terminal(<<"b">>)>>,
                              <<Terminal(<<"a", "b">>), Nonterminal("s")>> >>] >>,
     vocab |-> << <<"a">>, <<"b">>, <<"a", "b">> >>,
     start |-> "s"]

\* <s> ::= 'a' <p> | 'd' <q>      <p> ::= 'b'      <q> ::= 'c'
BranchCase ==
    [input |-> << [lhs |-> "s",
                   rhs |-> << <<Terminal(<<"a">>), Nonterminal("p")>>,
                              <<Terminal(<<"d">>), Nonterminal("q")>> >>],
                  [lhs |-> "p", rhs |-> << <<Terminal(<<"b">>)>> >>],
                  [lhs |-> "q", rhs |-> << <<Terminal(<<"c">>)>> >>] >>,
     vocab |-> << <<"a", "b">>, <<"d", "b">>, <<"d", "c">> >>,
     start |-> "s"]

\* <s> ::= 'a' <t>      <t> ::= 'b' | 'c'
TailCase ==
    [input |-> << [lhs |-> "s",
                   rhs |-> << <<Terminal(<<"a">>), Nonterminal("t")>> >>],
                  [lhs |-> "t",
                   rhs |-> << <<Terminal(<<"b">>)>>, <<Terminal(<<"c">>)>> >>] >>,
     vocab |-> << <<"a">>, <<"a", "a">>, <<"a", "b">>, <<"b">> >>,
     start |-> "s"]

\* <s> ::= <p> 'b' | <q> 'b'      <p> ::= 'a'      <q> ::= 'a' | 'c'
TwinCase ==
    [input |-> << [lhs |-> "s",
                   rhs |-> << <<Nonterminal("p"), Terminal(<<"b">>)>>,
                              <<Nonterminal("q"), Terminal(<<"b">>)>> >>],
                  [lhs |-> "p", rhs |-> << <<Terminal(<<"a">>)>> >>],
                  [lhs |-> "q",
                   rhs |-> << <<Terminal(<<"a">>)>>, <<Terminal(<<"c">>)>> >>] >>,
     vocab |-> << <<"a">>, <<"b">>, <<"c">> >>,
     start |-> "s"]

\* <s> ::= '"' <body> '"'      <body> ::= <any!><body> | ''
AnyCase ==
    [input |-> << [lhs |-> "s",
                   rhs |-> << <<Terminal(<<"\"">>), Nonterminal("body"),
                                Terminal(<<"\"">>)>> >>],
                  [lhs |-> "body",
                   rhs |-> << <<Nonterminal(ANY_NONTERMINAL_NAME),
                                Nonterminal("body")>>,
                              <<Terminal(<<>>)>> >>] >>,
     vocab |-> << <<"\"">>, <<"x">>, <<"x", "\"">> >>,
     start |-> "s"]

\* <s> ::= <s> 'a' | 'a'
LeftRecursiveCase ==
    [input |-> << [lhs |-> "s",
                   rhs |-> << <<Nonterminal("s"), Terminal(<<"a">>)>>,
                              <<Terminal(<<"a">>)>> >>] >>,
     vocab |-> << <<"a">>, <<"a", "a">> >>,
     start |-> "s"]

\* <dna> ::= <base><dna> | <base><digit>
\* <base> ::= 'A' | 'C' | 'G' | 'T'      <digit> ::= '1' | '2' | '3' | '4'
ScenarioCase ==
    [input |-> << [lhs |-> "dna",
                   rhs |-> << <<Nonterminal("base"), Nonterminal("dna")>>,
                              <<Nonterminal("base"), Nonterminal("digit")>> >>],
                  [lhs |-> "base",
                   rhs |-> << <<Terminal(<<"A">>)>>, <<Terminal(<<"C">>)>>,
                              <<Terminal(<<"G">>)>>, <<Terminal(<<"T">>)>> >>],
                  [lhs |-> "digit",
                   rhs |-> << <<Terminal(<<"1">>)>>, <<Terminal(<<"2">>)>>,
                              <<Terminal(<<"3">>)>>, <<Terminal(<<"4">>)>> >>] >>,
     vocab |-> << <<"A">>, <<"C">>, <<"G">>, <<"T">>, <<"1">>, <<"2">>, <<"3">>,
                  <<"4">>, <<"C", "A", "T">>, <<"A", "1">> >>,
     start |-> "dna"]

\* <s> ::= '"' <body> '"'      <body> ::= <c><body> | ''
\* <c> ::= <except!('"')>
ExceptCase ==
    [input |-> << [lhs |-> "s",
                   rhs |-> << <<Terminal(<<"\"">>), Nonterminal("body"),
                                Terminal(<<"\"">>)>> >>],
                  [lhs |-> "body",
                   rhs |-> << <<Nonterminal("c"), Nonterminal("body")>>,
                              <<Terminal(<<>>)>> >>],
                  [lhs |-> "c",
                   rhs |-> << <<Nonterminal(ExceptLiteralName)>> >>] >>,
     vocab |-> << <<"\"">>, <<"x">>, <<"x", "\"">>, <<"\"", "x">> >>,
     start |-> "s"]

\* the schema of AnyCase with the vocabulary of ExceptCase
AnyScenarioCase == [AnyCase EXCEPT !.vocab = ExceptCase.vocab]

\* <s> ::= <except!([q])> 'b'      <q> ::= 'a' | 'c'
ExceptNonterminalCase ==
    [input |-> << [lhs |-> "s",
                   rhs |-> << <<Nonterminal(ExceptNonterminalName),
                                Terminal(<<"b">>)>> >>],
                  [lhs |-> "q",
                   rhs |-> << <<Terminal(<<"a">>)>>, <<Terminal(<<"c">>)>> >>] >>,
     vocab |-> << <<"a">>, <<"b">>, <<"c">>, <<"x">>, <<"a", "b">> >>,
     start |-> "s"]

\* <s> ::= <except!([undefined])> 'b', no production for <undefined>
ExceptUndefinedCase ==
    [input |-> << [lhs |-> "s",
                   rhs |-> << <<Nonterminal(ExceptUndefinedName),
                                Terminal(<<"b">>)>> >>] >>,
     vocab |-> << <<"a">>, <<"b">> >>,
     start |-> "s"]

Cases == <<DnaCase, RepeatCase, BranchCase, TailCase, TwinCase, AnyCase>>

CaseIds == 1..Len(Cases)

\* the cases explored apart from the others
\* <s> ::= 'abc' <s> | 'ab' | ''
MatchCase ==
    [input |-> << [lhs |-> "s",
                   rhs |-> << <<Terminal(<<"a", "b", "c">>), Nonterminal("s")>>,
                              <<Terminal(<<"a", "b">>)>>,
                              <<Terminal(<<>>)>> >>] >>,
     vocab |-> << <<"a">>, <<"a", "b">>, <<"b", "c">>, <<"c">> >>,
     start |-> "s"]

\* <s> ::= <c><s> | 'b'      <c> ::= <except!('aab')>
ExceptRunCase ==
    [input |-> << [lhs |-> "s",
                   rhs |-> << <<Nonterminal("c"), Nonterminal("s")>>,
                              <<Terminal(<<"b">>)>> >>],
                  [lhs |-> "c",
                   rhs |-> << <<Nonterminal(ExceptRunName)>> >>] >>,
     vocab |-> << <<"a">>, <<"b">>, <<"a", "a", "b">>, <<"a", "a", "a", "b">>,
                  <<"b", "a", "a", "b">> >>,
     start |-> "s"]

MoreCases == <<LeftRecursiveCase, ScenarioCase, ExceptCase, ExceptNonterminalCase, ExceptUndefinedCase, AnyScenarioCase, MatchCase, ExceptRunCase>>

AllCases == Cases \o MoreCases

LeftRecursiveCaseId == Len(Cases) + 1

ScenarioCaseId == Len(Cases) + 2

ExceptCaseId == Len(Cases) + 3

ExceptNonterminalCaseId == Len(Cases) + 4

ExceptUndefinedCaseId == Len(Cases) + 5

AnyScenarioCaseId == Len(Cases) + 6

MatchCaseId == Len(Cases) + 7

ExceptRunCaseId == Len(Cases) + 8

\* the cases on which two Samplers are run side by side
TwoCaseIds == {c \in CaseIds : AllCases[c] \in {DnaCase, TailCase}}

Vocab(c) == AllCases[c].vocab

\* ------------------------------------------------------------------------
\* Stack items (src/bnf_sampler/src/sampler.rs, lines 21-38)
\* ------------------------------------------------------------------------

INVALID_INDEX == 0 - 1

\* usize::MAX, the initial shortest_failed_index; any value above every
\* byte index serves
USIZE_MAX == 2147483647

\* StackItem, a record of one shape for the three variants and for
\* Option::None.  The derived PartialEq of StackItem::Terminal compares the
\* ConstU8SlicePtr, a raw pointer to a sub-slice of a Vec<u8> owned by the
\* grammar: the address and the length, never the bytes.  A Terminal item is
\* therefore identified by the Vec it points into (nonterminal id, index e of
\* the right-hand side, position j of the term) and the offset off into that
\* Vec; the slice reaches to the end of the Vec.  An empty Vec<u8> has no
\* allocation and all empty slices share the dangling address: e = 0.
StackItemNonterminal(id) == [k |-> "Nonterminal", id |-> id, e |-> 0, j |-> 0, off |-> 0]

StackItemTerminals(node_id) == [k |-> "Terminals", id |-> node_id, e |-> 0, j |-> 0, off |-> 0]

StackItemTerminal(grammar, id, e, j, off) ==
    IF grammar.nonterminal_id_to_expression[id].alts[e][j].bytes = <<>>
    THEN [k |-> "Terminal", id |-> 0, e |-> 0, j |-> 0, off |-> 0]
    ELSE [k |-> "Terminal", id |-> id, e |-> e, j |-> j, off |-> off]

NoItem == [k |-> "None", id |-> 0, e |-> 0, j |-> 0, off |-> 0]

\* ConstU8SlicePtr::get: the bytes a Terminal item points to
TerminalBytes(grammar, item) ==
    IF item.e = 0 THEN <<>>
    ELSE Tail0(grammar.nonterminal_id_to_expression[item.id].alts[item.e][item.j].bytes,
               item.off)

\* Option<&[u8]>
NoBytes == [some |-> FALSE, v |-> <<>>]

SomeBytes(b) == [some |-> TRUE, v |-> b]

\* ------------------------------------------------------------------------
\* match_stack_to_bytes (sampler.rs, lines 388-562)
\* ------------------------------------------------------------------------

BytesMatchResult(remaining_bytes_start, stack_offset, modified_item_at_offset) ==
    [remaining_bytes_start |-> remaining_bytes_start,
     stack_offset |-> stack_offset,
     modified_item_at_offset |-> modified_item_at_offset]

\* lines 421-438: the loop over the bytes of a Terminal; returns how it
\* ended and at which i
RECURSIVE TerminalLoop(_, _, _, _)
TerminalLoop(terminal, bytes, bytes_index, i) ==
    IF i >= Len(terminal) THEN [end |-> "terminal", i |-> i]
    ELSE IF Len(bytes) = i + bytes_index THEN [end |-> "bytes", i |-> i]
    ELSE IF bytes[i + bytes_index + 1] # terminal[i + 1] THEN [end |-> "mismatch", i |-> i]
    ELSE TerminalLoop(terminal, bytes, bytes_index, i + 1)

\* A variant of line 473 that truncates nothing
TruncateNothing(nodes, len) == nodes

\* Vec::truncate; the length i + 1 - bytes_index - index of line 473 is an
\* unsigned difference, which wraps below zero and then truncates nothing
Truncate(nodes, len) ==
    IF len < 0 \/ len >= Len(nodes) THEN nodes ELSE SubSeq(nodes, 1, len)

\* lines 466-486: the walk of the trie along bytes[bytes_index..]
RECURSIVE TrieWalk(_, _, _, _, _, _, _)
TrieWalk(trie, current_node_id, bytes, bytes_index, i, nodes, shortest_failed_index) ==
    IF i >= Len(bytes)
    THEN [nodes |-> nodes, flag |-> TRUE, shortest_failed_index |-> shortest_failed_index]
    ELSE LET current_node == TrieGet(trie, current_node_id)
             byte == bytes[i + 1]
         IN  IF byte \in DOMAIN current_node.children
             THEN LET new_node_id == current_node.children[byte]
                      new_node == TrieGet(trie, new_node_id)
                      nodes1 == Append(nodes, new_node_id)
                  IN  IF new_node.negative_bytes_index # NoNegativeIndex
                      THEN [nodes |-> Truncate(nodes1, i + 1 - bytes_index
                                                       - new_node.negative_bytes_index),
                            flag |-> FALSE,
                            shortest_failed_index |-> shortest_failed_index]
                      ELSE TrieWalk(trie, new_node_id, bytes, bytes_index, i + 1,
                                    nodes1, shortest_failed_index)
             ELSE [nodes |-> nodes, flag |-> FALSE,
                   shortest_failed_index |-> Min(i, shortest_failed_index)]

\* _match_stack_to_bytes (lines 395-535) on the state
\* m = [found, shortest_failed_index, result].  MatchTerminal is its
\* Terminal arm after the loop over the bytes (lines 439-465),
\* MatchTerminals its Terminals arm after the walk of the trie (lines
\* 487-532), NodesLoop the loop of lines 488-509 from node i on, which also
\* reports an early return, and LastNode the lines 510-531.
RECURSIVE MatchRec(_, _, _, _, _, _, _)
RECURSIVE NodesLoop(_, _, _, _, _, _, _, _, _)

\* A variant of line 429 that hands back the whole terminal, not
\* terminal[i..]
MatchTerminalKeepingItem(grammar, stack, bytes, bytes_index, stack_offset, find_all, m, item, terminal, l) ==
    IF l.end = "bytes"
    THEN [m EXCEPT !.found = TRUE,
                   !.result = Append(@, BytesMatchResult(INVALID_INDEX, stack_offset, item))]
    ELSE IF l.end = "mismatch"
    THEN [m EXCEPT !.shortest_failed_index = Min(l.i + bytes_index, @)]
    ELSE IF Len(bytes) - bytes_index = Len(terminal)
    THEN [m EXCEPT !.found = TRUE,
                   !.result = Append(@, BytesMatchResult(INVALID_INDEX, stack_offset,
                                                         NoItem))]
    ELSE IF stack_offset > 0
    THEN MatchRec(grammar, stack, bytes, Len(terminal) + bytes_index,
                  stack_offset - 1, find_all, m)
    ELSE m

MatchTerminal(grammar, stack, bytes, bytes_index, stack_offset, find_all, m, item, terminal, l) ==
    IF l.end = "bytes"
    THEN [m EXCEPT !.found = TRUE,
                   !.result = Append(@, BytesMatchResult(INVALID_INDEX, stack_offset,
                                           [item EXCEPT !.off = item.off + l.i]))]
    ELSE IF l.end = "mismatch"
    THEN [m EXCEPT !.shortest_failed_index = Min(l.i + bytes_index, @)]
    ELSE IF Len(bytes) - bytes_index = Len(terminal)
    THEN [m EXCEPT !.found = TRUE,
                   !.result = Append(@, BytesMatchResult(INVALID_INDEX, stack_offset,
                                                         NoItem))]
    ELSE IF stack_offset > 0
    THEN MatchRec(grammar, stack, bytes, Len(terminal) + bytes_index,
                  stack_offset - 1, find_all, m)
    ELSE m

LastNode(trie, stack_offset, last_node_id, last_node, m) ==
    LET m2 == IF last_node.children # <<>> /\ last_node.can_stop
              THEN [m EXCEPT !.found = TRUE,
                             !.result = Append(@, BytesMatchResult(
                                            INVALID_INDEX, stack_offset,
                                            StackItemTerminals(last_node_id)))]
              ELSE m
    IN  IF last_node.has_value
        THEN [m2 EXCEPT !.found = TRUE,
                        !.result = Append(@, BytesMatchResult(
                                       INVALID_INDEX, stack_offset, NoItem))]
        ELSE m2

AfterNodesLoop(trie, stack_offset, w, n) ==
    IF n.returned THEN n.m
    ELSE IF w.nodes # <<>> /\ w.flag
    THEN LastNode(trie, stack_offset, w.nodes[Len(w.nodes)],
                  TrieGet(trie, w.nodes[Len(w.nodes)]), n.m)
    ELSE n.m

MatchTerminals(grammar, stack, bytes, bytes_index, stack_offset, find_all, m, w) ==
    AfterNodesLoop(grammar.terminals_trie, stack_offset, w,
        NodesLoop(grammar, stack, bytes, bytes_index, stack_offset, find_all,
                  w.nodes, 0,
                  [m EXCEPT !.shortest_failed_index = w.shortest_failed_index]))

MatchRec(grammar, stack, bytes, bytes_index, stack_offset, find_all, m) ==
    IF bytes = <<>> \/ (~find_all /\ m.found) THEN m
    ELSE
    LET item == stack[stack_offset + 1]
    IN
    CASE item.k = "Nonterminal" ->
           IF bytes_index # 0
           THEN [m EXCEPT !.result =
                    Append(@, BytesMatchResult(bytes_index, stack_offset, NoItem))]
           ELSE m
      [] item.k = "Terminal" ->
           MatchTerminal(grammar, stack, bytes, bytes_index, stack_offset, find_all,
                         m, item, TerminalBytes(grammar, item),
                         TerminalLoop(TerminalBytes(grammar, item), bytes,
                                      bytes_index, 0))
      [] item.k = "Terminals" ->
           MatchTerminals(grammar, stack, bytes, bytes_index, stack_offset, find_all,
                          m, TrieWalk(grammar.terminals_trie, item.id, bytes,
                                      bytes_index, bytes_index, <<>>,
                                      m.shortest_failed_index))

NodesStep(grammar, stack, bytes, bytes_index, stack_offset, find_all, nodes, i, m1) ==
    IF ~find_all /\ m1.found
    THEN [m |-> m1, returned |-> TRUE]
    ELSE NodesLoop(grammar, stack, bytes, bytes_index, stack_offset, find_all,
                   nodes, i + 1, m1)

NodesLoop(grammar, stack, bytes, bytes_index, stack_offset, find_all, nodes, i, m) ==
    IF i >= Len(nodes) THEN [m |-> m, returned |-> FALSE]
    ELSE IF /\ TrieGet(grammar.terminals_trie, nodes[i + 1]).has_value
            /\ stack_offset > 0
            /\ i + bytes_index < Len(bytes) - 1
    THEN NodesStep(grammar, stack, bytes, bytes_index, stack_offset, find_all,
                   nodes, i,
                   MatchRec(grammar, stack, bytes, bytes_index + i + 1,
                            stack_offset - 1, find_all, m))
    ELSE NodesLoop(grammar, stack, bytes, bytes_index, stack_offset, find_all,
                   nodes, i + 1, m)

\* lines 553-560: BytesMatchResults as [failed, index, results]
MatchResults(m) ==
    IF m.result = <<>>
    THEN [failed |-> TRUE, index |-> m.shortest_failed_index, results |-> <<>>]
    ELSE [failed |-> FALSE, index |-> 0, results |-> m.result]

\* match_stack_to_bytes (lines 388-394 and 536-561)
match_stack_to_bytes(grammar, stack, bytes, find_all) ==
    IF ~bytes.some THEN [failed |-> FALSE, index |-> 0, results |-> <<>>]
    ELSE MatchResults(MatchRec(grammar, stack, bytes.v, 0, Len(stack) - 1, find_all,
                               [found |-> FALSE, shortest_failed_index |-> USIZE_MAX,
                                result |-> <<>>]))

\* ------------------------------------------------------------------------
\* find_stacks_matching_bytes (sampler.rs, lines 564-753)
\* ------------------------------------------------------------------------

\* What a call of find_stacks_matching_bytes can change, as one record w:
\*   cache   stack_to_bytes_cache, a map from <<stack, bytes>> to bool
\*   out     the stacks pushed by after_finding_stack (self.stacks[len..])
\*   failed  failed_prefixs, the keys inserted by after_match_failed
\*   ptr     the watermark of the stack arena
\* The engine passes exactly two pairs of callbacks, tied to find_all:
\* accept_a_token calls with find_all = true, a pushing after_finding_stack
\* and an empty after_match_failed (lines 340-358); all_possible_next_tokens
\* calls with find_all = false, an empty after_finding_stack and a recording
\* after_match_failed (lines 287-303).
World(cache, out, capacity) == [cache |-> cache, out |-> out, failed |-> {}, ptr |-> 0, capacity |-> capacity, exhausted |-> <<>>]

\* BufferArena::allocate_a_stack: the watermark advances by the capacity.
\* The first allocation that does not fit in the arena fails, which ends the
\* call of the Sampler there: exhausted records how many successor stacks
\* the call had pushed by then, and the watermark that the allocations
\* before it had left.
Allocate(w, capacity) ==
    [w EXCEPT !.ptr = @ + capacity,
              !.exhausted = IF @ = <<>> /\ w.ptr + capacity > w.capacity
                            THEN <<Len(w.out), w.ptr>> ELSE @]

\* BufferArena::clear: the watermark is rewound
Cleared(w) == [w EXCEPT !.ptr = 0]

\* A variant of the closure without the search of lines 352-354: every
\* successor stack is pushed
AfterFindingStackWithoutSearch(w, find_all, temp_stack, top) ==
    IF find_all
    THEN [w EXCEPT !.out = Append(@, IF top.k # "None" THEN Append(temp_stack, top)
                                     ELSE temp_stack)]
    ELSE w

\* the after_finding_stack closure of accept_a_token (lines 347-356), and
\* the empty closure of all_possible_next_tokens (line 294)
AfterFindingStack(w, find_all, temp_stack, top) ==
    IF find_all
    THEN LET new_vec == IF top.k # "None" THEN Append(temp_stack, top) ELSE temp_stack
         IN  IF \E x \in 1..Len(w.out) : w.out[x] = new_vec
             THEN w
             ELSE [w EXCEPT !.out = Append(@, new_vec)]
    ELSE w

\* the after_match_failed closure of all_possible_next_tokens (lines
\* 295-302), and the empty closure of accept_a_token (line 357)
AfterMatchFailed(w, find_all, bytes, index) ==
    IF ~find_all /\ index < USIZE_MAX
    THEN [w EXCEPT !.failed = @ \cup {Head0(bytes, index + 1)}]
    ELSE w

\* A key of stack_to_bytes_cache, (FixedBuffer<StackItem>, Box<[u8]>), built
\* at lines 699-708 from the stack below the nonterminal that is expanded and
\* the remaining bytes.  Two keys are equal when the items of the buffers
\* and the bytes are equal.
CacheKey(temp_stack, rest) == <<temp_stack, rest>>

\* the order in which the FxHashSet of right-hand sides is iterated: the
\* code leaves it unspecified, the model takes the order of the schema or
\* its reverse
ExpressionsIter(grammar, top, rev) ==
    LET n == Len(grammar.nonterminal_id_to_expression[top].alts)
    IN  [x \in 1..n |-> IF rev THEN n + 1 - x ELSE x]

\* lines 599-608: the items of right-hand side e of nonterminal top, pushed
\* in reverse
RECURSIVE PushTerms(_, _, _, _)
PushTerms(grammar, top, e, j) ==
    IF j = 0 THEN <<>>
    ELSE LET term == grammar.nonterminal_id_to_expression[top].alts[e][j]
         IN  <<IF term.t = "Terminal"
               THEN StackItemTerminal(grammar, top, e, j, 0)
               ELSE StackItemNonterminal(grammar.nonterminal_to_terminal_id[term.name])>>
             \o PushTerms(grammar, top, e, j - 1)

\* Find is find_stacks_matching_bytes, Expand its closure
\* _find_stacks_matching_bytes (lines 583-646), ExpressionsLoop the loop of
\* lines 595-623, LeafLoop the loop of lines 672-683 and TailLoop the loop of
\* lines 684-745.  env = [grammar, rev, cache_enabled].  Each returns
\* [ok, w], LeafLoop also whether the function returned from inside.
RECURSIVE Find(_, _, _, _, _)
RECURSIVE Expand(_, _, _, _, _, _)
RECURSIVE ExpressionsLoop(_, _, _, _, _, _, _, _)
RECURSIVE TailLoop(_, _, _, _, _, _, _, _)

RECURSIVE LeafLoop(_, _, _, _, _, _)
LeafLoop(stack, find_all, results, x, flag, w) ==
    IF x > Len(results) THEN [ok |-> flag, w |-> w, returned |-> FALSE]
    ELSE IF results[x].remaining_bytes_start # INVALID_INDEX
    THEN LeafLoop(stack, find_all, results, x + 1, flag, w)
    ELSE IF ~find_all
    THEN [ok |-> TRUE,
          w |-> AfterFindingStack(w, find_all, Head0(stack, results[x].stack_offset),
                                  results[x].modified_item_at_offset),
          returned |-> TRUE]
    ELSE LeafLoop(stack, find_all, results, x + 1, TRUE,
                  AfterFindingStack(w, find_all,
                                    Head0(stack, results[x].stack_offset),
                                    results[x].modified_item_at_offset))

\* lines 684-745, after the loop of lines 672-683 has ended as a
AfterLeafLoop(env, stack, bytes, find_all, results, a) ==
    IF a.returned THEN [ok |-> TRUE, w |-> a.w]
    ELSE TailLoop(env, stack, bytes, find_all, results, Len(results), a.ok, a.w)

\* lines 660-746, on the result r of match_stack_to_bytes
AfterMatch(env, stack, bytes, find_all, w, r) ==
    IF r.failed
    THEN [ok |-> FALSE, w |-> AfterMatchFailed(w, find_all, bytes.v, r.index)]
    ELSE IF r.results = <<>>
    THEN [ok |-> TRUE, w |-> AfterFindingStack(w, find_all, stack, NoItem)]
    ELSE AfterLeafLoop(env, stack, bytes, find_all, r.results,
                       LeafLoop(stack, find_all, r.results, 1, FALSE, w))

\* Nothing of the call runs after the allocation that exhausted the arena.
Find(env, stack, bytes, find_all, w) ==
    IF w.exhausted # <<>> THEN [ok |-> FALSE, w |-> w]
    ELSE IF stack = <<>> THEN [ok |-> FALSE, w |-> w]
    ELSE IF stack[Len(stack)].k = "Nonterminal"
    THEN Expand(env, stack[Len(stack)].id, Head0(stack, Len(stack) - 1), bytes,
                find_all, w)
    ELSE AfterMatch(env, stack, bytes, find_all, w,
                    match_stack_to_bytes(env.grammar, stack, bytes, find_all))

\* lines 725 and 728-732: the outcome c of the recursive call is stored
\* under the key k when the cache is in use
CacheInsert(cache_enabled, k, c) ==
    IF cache_enabled
    THEN [ok |-> c.ok, w |-> [c.w EXCEPT !.cache = (k :> c.ok) @@ @]]
    ELSE c

\* lines 685-742 for one result with remaining bytes: below is the stack
\* under the nonterminal top that is expanded, temp_stack the buffer of the
\* key, rest the remaining bytes.  The item at stack_offset is a
\* Nonterminal: only the Nonterminal arm of _match_stack_to_bytes yields a
\* remaining_bytes_start.
TailExpand(env, find_all, top, below, temp_stack, rest, w1) ==
    IF env.cache_enabled /\ CacheKey(temp_stack, rest) \in DOMAIN w1.cache
    THEN [ok |-> w1.cache[CacheKey(temp_stack, rest)], w |-> w1]
    ELSE CacheInsert(env.cache_enabled, CacheKey(temp_stack, rest),
                     Expand(env, top, below, SomeBytes(rest), find_all, w1))

\* lines 743-744 and the loop's next round, on the outcome t of one result
TailStep(env, stack, bytes, find_all, results, x, flag, t) ==
    IF ~find_all /\ (flag \/ t.ok) THEN [ok |-> TRUE, w |-> t.w]
    ELSE TailLoop(env, stack, bytes, find_all, results, x - 1, flag \/ t.ok, t.w)

TailLoop(env, stack, bytes, find_all, results, x, flag, w) ==
    IF x < 1 THEN [ok |-> flag, w |-> w]
    ELSE IF results[x].remaining_bytes_start = INVALID_INDEX
    THEN TailLoop(env, stack, bytes, find_all, results, x - 1, flag, w)
    ELSE
    LET result == results[x]
        below  == Head0(stack, result.stack_offset)
        item   == IF result.modified_item_at_offset.k # "None"
                  THEN result.modified_item_at_offset
                  ELSE stack[result.stack_offset + 1]
    IN  TailStep(env, stack, bytes, find_all, results, x, flag,
            TailExpand(env, find_all, item.id, below,
                IF result.modified_item_at_offset.k # "None"
                THEN Append(below, result.modified_item_at_offset)
                ELSE below,
                Tail0(bytes.v, result.remaining_bytes_start),
                Allocate(w, result.stack_offset + 1)))

Expand(env, top, stack, bytes, find_all, w) ==
    IF w.exhausted # <<>> THEN [ok |-> FALSE, w |-> w]
    ELSE IF env.grammar.nonterminal_id_to_expression[top].kind = "Expressions"
    THEN ExpressionsLoop(env, top, stack, bytes, find_all,
                         ExpressionsIter(env.grammar, top, env.rev), FALSE, w)
    ELSE Find(env, Append(stack, StackItemTerminals(
                              env.grammar.nonterminal_id_to_expression[top].node)),
              bytes, find_all, Allocate(w, Len(stack) + 1))

\* lines 619-622 and the loop's next round, on the outcome r of one
\* right-hand side
ExpressionsStep(env, top, stack, bytes, find_all, order, found, r) ==
    IF ~find_all /\ (found \/ r.ok) THEN [ok |-> TRUE, w |-> r.w]
    ELSE ExpressionsLoop(env, top, stack, bytes, find_all, Tail(order),
                         found \/ r.ok, r.w)

ExpressionsLoop(env, top, stack, bytes, find_all, order, found, w) ==
    IF order = <<>> THEN [ok |-> found, w |-> w]
    ELSE ExpressionsStep(env, top, stack, bytes, find_all, order, found,
             Find(env,
                  stack \o PushTerms(env.grammar, top, Head(order),
                      Len(env.grammar.nonterminal_id_to_expression[top].alts[Head(order)])),
                  bytes, find_all,
                  Allocate(w, Len(stack)
                      + Len(env.grammar.nonterminal_id_to_expression[top].alts[Head(order)]))))

\* ------------------------------------------------------------------------
\* Sampler (sampler.rs, lines 39-50 and 171-387)
\* ------------------------------------------------------------------------

\* (u8::MAX / 2) of BufferOrTreeIter::new, line 108
HalfU8Max == 127

\* Option<u32>::None as an input token id
NoToken == 0 - 1

\* A Sampler value: the fields that change after construction.  grammar,
\* vocabulary, start_nonterminal and stack_to_bytes_cache_enabled are fixed
\* at construction and are carried in env; the stack arena is empty between
\* the calls.
\* Sampler::new, lines 181-206
SamplerNew(grammar, start_nonterminal) ==
    [stacks |-> <<(<<StackItemNonterminal(
                       grammar.nonterminal_to_terminal_id[start_nonterminal])>>)>>,
     stacks_to_token_ids |-> <<>>,
     token_ids |-> {}]

\* A variant of reset that leaves the stacks as they are
SamplerResetKeepingStacks(grammar, start_nonterminal, sampler) == sampler

\* Sampler::reset, lines 208-212
SamplerReset(grammar, start_nonterminal, sampler) ==
    [sampler EXCEPT !.stacks =
        <<(<<StackItemNonterminal(
                 grammar.nonterminal_to_terminal_id[start_nonterminal])>>)>>]

\* Vec::swap_remove(i): the last element takes the place of element i
SwapRemove(v, i) ==
    IF i = Len(v) - 1 THEN Head0(v, Len(v) - 1)
    ELSE [Head0(v, Len(v) - 1) EXCEPT ![i + 1] = v[Len(v)]]

\* A variant of lines 366-368 that removes nothing: the old stacks stay
RemoveNone(v, len) == v

\* lines 366-368: swap_remove(i) for i from len - 1 down to 0
RECURSIVE RemoveOld(_, _)
RemoveOld(v, len) ==
    IF len = 0 THEN v ELSE RemoveOld(SwapRemove(v, len - 1), len - 1)

\* lines 322-365: the loop over the old stacks, from old stack i on, ptr
\* being the watermark of stack_arena; AcceptStep takes the outcome r of
\* find_stacks_matching_bytes for stack i, after which line 364 clears the
\* arena.  For an empty stack line 326 allocates nothing and line 361
\* goes on to the next stack.
RECURSIVE AcceptLoop(_, _, _, _, _, _, _)
AcceptStep(env, stacks, bytes, i, accepted, r) ==
    IF r.w.exhausted # <<>>
    THEN [accepted |-> accepted, out |-> Head0(r.w.out, r.w.exhausted[1]),
          exhausted |-> TRUE, ptr |-> r.w.exhausted[2]]
    ELSE AcceptLoop(env, stacks, bytes, i + 1, accepted \/ r.ok, r.w.out,
                    Cleared(r.w).ptr)

AcceptLoop(env, stacks, bytes, i, accepted, out, ptr) ==
    IF i >= Len(stacks)
    THEN [accepted |-> accepted, out |-> out, exhausted |-> FALSE, ptr |-> ptr]
    ELSE IF stacks[i + 1] = <<>>
    THEN AcceptLoop(env, stacks, bytes, i + 1, accepted, out, ptr)
    ELSE AcceptStep(env, stacks, bytes, i, accepted,
                    Find(env, stacks[i + 1], bytes, TRUE,
                         Allocate([World(<<>>, out, env.capacity) EXCEPT !.ptr = ptr],
                                  Len(stacks[i + 1]))))

\* A variant of lines 369-375 without the test of line 370: End as soon as
\* some stack matches
AcceptResultEndOnAnyMatch(accepted, new) ==
    [stacks |-> new, result |-> IF accepted THEN "End" ELSE "Failed"]

\* lines 369-376: the result, new being the stacks left by lines 366-368
AcceptResult(accepted, new) ==
    [stacks |-> new,
     result |-> IF accepted
                THEN IF new = <<>> \/ \A x \in 1..Len(new) : new[x] = <<>>
                     THEN "End" ELSE "Continue"
                ELSE "Failed"]

\* lines 366-376, on the outcome l of the loop over the old stacks
\* When the arena is exhausted inside the loop, lines 366-376 are not
\* reached: the stacks pushed so far stay behind the old ones.
\* ptr is the watermark that the loop has left.
WithWatermark(a, ptr) == [stacks |-> a.stacks, result |-> a.result, ptr |-> ptr]

AfterAcceptLoop(stacks, l) ==
    IF l.exhausted
    THEN [stacks |-> stacks \o l.out, result |-> "ArenaExhausted", ptr |-> l.ptr]
    ELSE WithWatermark(AcceptResult(l.accepted, RemoveOld(stacks \o l.out, Len(stacks))),
                       l.ptr)

\* the closure find_stacks_matching_bytes of accept_a_token, lines 319-377,
\* called with the watermark ptr
AcceptBytes(env, stacks, bytes, ptr) ==
    AfterAcceptLoop(stacks, AcceptLoop(env, stacks, bytes, 0, FALSE, <<>>, ptr))

\* A variant of lines 381-386 without the pass over no bytes: the stacks are
\* left as the match of the token bytes found them
SecondPassSkipped(env, sampler, token_id, first) == first

\* lines 381-386: after find_stacks_matching_bytes(bytes) has returned
\* first, the call find_stacks_matching_bytes(None) unless first is Failed
\* or End
SecondPass(env, sampler, token_id, first) ==
    IF first.result = "ArenaExhausted" THEN first
    ELSE IF token_id # NoToken /\ first.result \in {"Failed", "End"}
    THEN first
    ELSE AcceptBytes(env, first.stacks, NoBytes, first.ptr)

\* lines 378-386, on the outcome a = [stacks, result, ptr] of the passes
AcceptOutcome(sampler, a) ==
    [sampler |-> [sampler EXCEPT !.stacks = a.stacks], result |-> a.result,
     ptr |-> a.ptr]

\* Sampler::accept_a_token, lines 318-387
accept_a_token(env, vocab, sampler, token_id) ==
    AcceptOutcome(sampler,
        SecondPass(env, sampler, token_id,
            IF token_id # NoToken
            THEN AcceptBytes(env, sampler.stacks,
                             SomeBytes(id_to_token(vocab, token_id)), env.ptr)
            ELSE [stacks |-> sampler.stacks, result |-> "Continue", ptr |-> env.ptr]))

\* BufferOrTreeIter (lines 94-160), run to exhaustion: the candidate tokens
\* for a stack top, in the order they are yielded
RECURSIVE MultiplePrefixs(_, _)
MultiplePrefixs(keys, terminals) ==
    IF terminals = <<>> THEN <<>>
    ELSE iter_prefix(keys, longest_common_prefix(keys, Head(terminals)))
         \o MultiplePrefixs(keys, Tail(terminals))

BufferOrTreeIter(grammar, vocab, current_top) ==
    LET keys == SeqToSet(vocab)
    IN  IF current_top.k = "Terminal"
        THEN iter_prefix(keys, longest_common_prefix(keys,
                                   TerminalBytes(grammar, current_top)))
        ELSE IF Cardinality(DOMAIN TrieGet(grammar.terminals_trie,
                                           current_top.id).children) > HalfU8Max
        THEN token_to_id_keys(vocab)
        ELSE MultiplePrefixs(keys, TrieIter(grammar.terminals_trie, current_top.id))

\* lines 224-246: the ids taken over wholesale from nonterminal_to_token_ids
\* for the stacks whose top is the root of such a nonterminal
SkippedTokenIds(grammar, stacks) ==
    UNION { grammar.nonterminal_to_token_ids[k] :
              k \in { n \in DOMAIN grammar.terminals_trie.roots :
                        /\ n \in DOMAIN grammar.nonterminal_to_token_ids
                        /\ \E x \in 1..Len(stacks) :
                             stacks[x][Len(stacks[x])] =
                               StackItemTerminals(grammar.terminals_trie.roots[n]) } }

\* lines 264-308: the loop over the candidate tokens of one stack, on
\* t = [token_ids, cache, failed, ptr], ptr being the watermark of
\* stack_arena; TokenStep takes the outcome r of
\* find_stacks_matching_bytes for the first of the tokens, after which line
\* 307 clears the arena
RECURSIVE TokensLoop(_, _, _, _, _)
TokenStep(env, vocab, stack, tokens, t, r) ==
    IF r.w.exhausted # <<>> THEN [t EXCEPT !.exhausted = TRUE, !.ptr = r.w.exhausted[2]]
    ELSE TokensLoop(env, vocab, stack, Tail(tokens),
               [token_ids |-> IF r.ok
                              THEN t.token_ids \cup {token_to_id(vocab, Head(tokens))}
                              ELSE t.token_ids,
                cache |-> r.w.cache,
                failed |-> r.w.failed,
                exhausted |-> FALSE,
                ptr |-> Cleared(r.w).ptr])

TokensLoop(env, vocab, stack, tokens, t) ==
    IF tokens = <<>> THEN t
    ELSE IF \/ token_to_id(vocab, Head(tokens)) \in t.token_ids
            \/ longest_common_prefix(t.failed, Head(tokens)) \in t.failed
    THEN TokensLoop(env, vocab, stack, Tail(tokens), t)
    ELSE TokenStep(env, vocab, stack, tokens, t,
                   Find(env, stack, SomeBytes(Head(tokens)), FALSE,
                        Allocate([World(t.cache, <<>>, env.capacity)
                                    EXCEPT !.failed = t.failed, !.ptr = t.ptr],
                                 Len(stack))))

\* lines 255-310: the loop over the stacks; failed_prefixs is new for every
\* stack, stack_to_bytes_cache is one for the whole call
RECURSIVE StacksLoop(_, _, _, _, _, _, _)
StackStep(env, vocab, stacks, x, t) ==
    IF t.exhausted THEN [token_ids |-> t.token_ids, exhausted |-> TRUE, ptr |-> t.ptr]
    ELSE StacksLoop(env, vocab, stacks, x + 1, t.token_ids, t.cache, t.ptr)

StacksLoop(env, vocab, stacks, x, token_ids, cache, ptr) ==
    IF x > Len(stacks) THEN [token_ids |-> token_ids, exhausted |-> FALSE, ptr |-> ptr]
    ELSE StackStep(env, vocab, stacks, x,
             TokensLoop(env, vocab, stacks[x],
                        BufferOrTreeIter(env.grammar, vocab,
                                         stacks[x][Len(stacks[x])]),
                        [token_ids |-> token_ids, cache |-> cache, failed |-> {},
                         exhausted |-> FALSE, ptr |-> ptr]))

\* A variant of lines 311-314 that keeps only the newest entry
ComputedTokensForgetting(s1, l) ==
    [sampler |-> [s1 EXCEPT !.token_ids = l.token_ids,
                            !.stacks_to_token_ids = (s1.stacks :> l.token_ids)],
     result |-> IF l.exhausted THEN "ArenaExhausted" ELSE "Continue",
     tokens |-> l.token_ids, ptr |-> l.ptr]

\* lines 311-314: the token ids found are stored for the stacks and
\* returned; nothing is stored when the arena was exhausted inside the
\* closure of or_insert_with.  l = [token_ids, exhausted, ptr] is the
\* outcome of the loop over the stacks.
ComputedTokens(s1, l) ==
    IF l.exhausted
    THEN [sampler |-> [s1 EXCEPT !.token_ids = l.token_ids],
          result |-> "ArenaExhausted", tokens |-> {}, ptr |-> l.ptr]
    ELSE [sampler |-> [s1 EXCEPT !.token_ids = l.token_ids,
                                 !.stacks_to_token_ids =
                                     (s1.stacks :> l.token_ids) @@ @],
          result |-> "Continue",
          tokens |-> l.token_ids, ptr |-> l.ptr]

\* lines 224-315, s1 being the Sampler after accept_a_token returned
\* Continue and skipped the ids of lines 224-246, ptr the watermark that
\* accept_a_token has left
PossibleTokens(env, vocab, s1, skipped, ptr) ==
    IF s1.stacks \in DOMAIN s1.stacks_to_token_ids
    THEN [sampler |-> [s1 EXCEPT !.token_ids = skipped],
          result |-> "Continue",
          tokens |-> s1.stacks_to_token_ids[s1.stacks], ptr |-> ptr]
    ELSE IF \E x \in 1..Len(s1.stacks) :
               s1.stacks[x][Len(s1.stacks[x])].k = "Nonterminal"
    THEN [sampler |-> [s1 EXCEPT !.token_ids = skipped],
          result |-> "Panic", tokens |-> {}, ptr |-> ptr]
    ELSE ComputedTokens(s1, StacksLoop(env, vocab, s1.stacks, 1, skipped, <<>>, ptr))

\* lines 217-316, on the outcome a of accept_a_token.  "Panic" stands for
\* the expect of line 227 and the panic of line 114.
AfterAccept(env, vocab, a) ==
    IF a.result = "End"
    THEN [sampler |-> a.sampler, result |-> "End", tokens |-> {}, ptr |-> a.ptr]
    ELSE IF a.result = "Failed"
    THEN [sampler |-> a.sampler, result |-> "InputTokenRejected", tokens |-> {},
          ptr |-> a.ptr]
    ELSE IF a.result = "ArenaExhausted"
    THEN [sampler |-> a.sampler, result |-> "ArenaExhausted", tokens |-> {},
          ptr |-> a.ptr]
    ELSE IF \E x \in 1..Len(a.sampler.stacks) : a.sampler.stacks[x] = <<>>
    THEN [sampler |-> a.sampler, result |-> "Panic", tokens |-> {}, ptr |-> a.ptr]
    ELSE PossibleTokens(env, vocab, a.sampler,
                        a.sampler.token_ids
                          \cup SkippedTokenIds(env.grammar, a.sampler.stacks),
                        a.ptr)

\* A variant without the clear of line 219: the ids that earlier calls left
\* in token_ids stay
AllPossibleNextTokensWithoutClear(env, vocab, sampler, input_token_id) ==
    AfterAccept(env, vocab, accept_a_token(env, vocab, sampler, input_token_id))

\* Sampler::all_possible_next_tokens, lines 214-316
all_possible_next_tokens(env, vocab, sampler, input_token_id) ==
    AfterAccept(env, vocab,
        accept_a_token(env, vocab, [sampler EXCEPT !.token_ids = {}],
                       input_token_id))

\* ------------------------------------------------------------------------
\* Grammar::new, lines 287-352: the except!([nonterminal]) of the schema
\* ------------------------------------------------------------------------

\* the default of the temp_arena_capacity argument of the playground
TempArenaCapacity == 1024

\* the temporary Sampler of lines 302-308: stack_to_bytes_cache_enabled is
\* false; it iterates the sets of right-hand sides in the order of the
\* schema
TempEnv(grammar, stack_arena_capacity) ==
    [grammar |-> grammar, rev |-> FALSE, cache_enabled |-> FALSE,
     capacity |-> stack_arena_capacity, ptr |-> 0]

\* lines 327-332: except_literal for every token of tokens, by increasing id,
\* from token t on
RECURSIVE ExceptTokens(_, _, _, _, _)
ExceptTokens(trie, vocab, tokens, nonterminal_id, t) ==
    IF t >= Len(vocab) THEN trie
    ELSE ExceptTokens(IF t \in tokens
                      THEN ExceptLiteral(trie, id_to_token(vocab, t), nonterminal_id)
                      ELSE trie,
                      vocab, tokens, nonterminal_id, t + 1)

\* lines 333-344: the expression of the nonterminal is the root of its
\* sub-trie
ExceptInstalled(grammar, nonterminal_id, trie) ==
    [grammar EXCEPT !.terminals_trie = trie,
                    !.nonterminal_id_to_expression =
                        (nonterminal_id :> [kind |-> "Terminals", alts |-> <<>>,
                                            node |-> trie.roots[nonterminal_id]]) @@ @]

\* lines 327-344, on the outcome st of add_tokens
AfterAddTokens(grammar, vocab, nonterminal, tokens, st) ==
    ExceptInstalled([grammar EXCEPT !.nonterminal_to_token_ids = st.token_ids],
        grammar.nonterminal_to_terminal_id[nonterminal],
        AddAll(ExceptTokens(st.trie, vocab, tokens,
                            grammar.nonterminal_to_terminal_id[nonterminal], 0),
               LastValues(st.simplified[nonterminal]),
               grammar.nonterminal_to_terminal_id[nonterminal], TRUE))

\* lines 311-348, on the outcome r of all_possible_next_tokens(None) of the
\* temporary Sampler: the tokens it returns are the excepted literals;
\* anything but Continue panics
AfterTempMachine(grammar, vocab, nonterminal, r) ==
    IF r.result # "Continue" THEN [grammar EXCEPT !.panicked = TRUE]
    ELSE AfterAddTokens(grammar, vocab, nonterminal, r.tokens,
             AddTokensExcept([simplified |-> <<>>, trie |-> grammar.terminals_trie,
                              token_ids |-> grammar.nonterminal_to_token_ids],
                             vocab, grammar.nonterminal_to_terminal_id, nonterminal,
                             {id_to_token(vocab, t) : t \in r.tokens}))

\* lines 298-301: the except! nonterminal gets the next free id
ExceptNonterminalInserted(grammar, nonterminal) ==
    [grammar EXCEPT !.nonterminal_to_terminal_id =
        (nonterminal :> Cardinality(DOMAIN grammar.nonterminal_id_to_expression)) @@ @]

\* lines 288-351: the loop over the except!([nonterminal]) names; the
\* assert of lines 291-296 panics when the excepted name is no nonterminal
\* of the grammar
RECURSIVE ExceptNonterminals(_, _, _, _)
ExceptNonterminalStep(grammar1, vocab, stack_arena_capacity, names) ==
    ExceptNonterminals(
        AfterTempMachine(grammar1, vocab, Head(names),
            all_possible_next_tokens(TempEnv(grammar1, stack_arena_capacity), vocab,
                SamplerNew(grammar1, ExceptedNonterminal[Head(names)]), NoToken)),
        vocab, stack_arena_capacity, Tail(names))

ExceptNonterminals(grammar, vocab, stack_arena_capacity, names) ==
    IF names = <<>> \/ grammar.panicked THEN grammar
    ELSE IF ExceptedNonterminal[Head(names)] \notin DOMAIN grammar.nonterminal_to_terminal_id
    THEN [grammar EXCEPT !.panicked = TRUE]
    ELSE ExceptNonterminalStep(ExceptNonterminalInserted(grammar, Head(names)),
                               vocab, stack_arena_capacity, names)

\* Grammar::new(input, vocabulary, stack_arena_capacity)
GrammarOf(input, vocab, stack_arena_capacity) ==
    ExceptNonterminals(GrammarNew(input, vocab), vocab, stack_arena_capacity,
                       NonterminalExcepts(input))

\* the Grammar and Vocabulary of each case, built once
Grammars == [c \in 1..Len(AllCases) |-> GrammarOf(AllCases[c].input, AllCases[c].vocab, TempArenaCapacity)]

\* ------------------------------------------------------------------------
\* The state machine: one Sampler driven through its API
\* ------------------------------------------------------------------------

VARIABLES
    case,        \* the schema, vocabulary and start nonterminal (an index of Cases)
    stack_to_bytes_cache_enabled,   \* Sampler::stack_to_bytes_cache_enabled
    reversed,    \* the iteration order of the sets of right-hand sides
    stacks,      \* Sampler::stacks
    stacks_to_token_ids,            \* Sampler::stacks_to_token_ids
    token_ids,   \* Sampler::token_ids
    result,      \* the last call: [op, input, code, tokens]
    plain,       \* a second Sampler on the same grammar and vocabulary, built
                 \* with stack_to_bytes_cache_enabled = false and given the
                 \* same calls: [stacks, stacks_to_token_ids, token_ids, code, tokens]
    before,      \* stacks at the start of the last call
    accepted,    \* the bytes of the tokens accepted since new or reset
    accepted_ids,                   \* the ids of these tokens, in order
    history,     \* the calls made so far, as <<op, input>>
    stack_arena_capacity,           \* the capacity of Sampler::stack_arena
    start_nonterminal,              \* Sampler::start_nonterminal
    other,       \* a further Sampler on the same Arc<Grammar> and
                 \* Arc<Vocabulary>, new or a clone of the first, called on
                 \* its own: [stacks, stacks_to_token_ids, token_ids, code,
                 \* tokens, history, calls]
    matching,    \* a call of _match_stack_to_bytes taken by itself: its
                 \* arguments [stack, bytes, bytes_index, stack_offset,
                 \* find_all], whether it has run, and what it left in
                 \* found, shortest_failed_index and result
    stack_arena, \* Sampler::stack_arena: [current_ptr], the watermark the
                 \* last call left
    trie_calls,  \* a TerminalsTrie taken by itself: [trie, calls, excepts,
                 \* last], the trie that the calls of add and
                 \* except_terminal made so far have built, their number, the
                 \* number of those of except_terminal, and the last call
                 \* with its arguments and what it yielded
    arena_calls  \* a StackArena taken by itself: [arena, current_ptr,
                 \* stacks, calls, last], with the Stack values handed out
                 \* since the last clear as [start, capacity, top]

vars == <<case, stack_to_bytes_cache_enabled, reversed, stacks, stacks_to_token_ids,
          token_ids, result, plain, before, accepted, accepted_ids, history,
          stack_arena_capacity, start_nonterminal, other, matching, stack_arena,
          trie_calls, arena_calls>>

\* what a call finds in the Sampler besides Self: the grammar, the order of
\* iteration, the flag, and the arena with the watermark that the call
\* before has left
Env == [grammar |-> Grammars[case], rev |-> reversed,
        cache_enabled |-> stack_to_bytes_cache_enabled,
        capacity |-> stack_arena_capacity, ptr |-> stack_arena.current_ptr]

PlainEnv == [grammar |-> Grammars[case], rev |-> reversed, cache_enabled |-> FALSE,
             capacity |-> stack_arena_capacity, ptr |-> stack_arena.current_ptr]

Self == [stacks |-> stacks, stacks_to_token_ids |-> stacks_to_token_ids,
         token_ids |-> token_ids]

\* A variant in which the further Sampler works on the stacks_to_token_ids
\* of the first
OtherSelfSharingCache == [stacks |-> other.stacks,
                          stacks_to_token_ids |-> stacks_to_token_ids,
                          token_ids |-> other.token_ids]

OtherSelf == [stacks |-> other.stacks,
              stacks_to_token_ids |-> other.stacks_to_token_ids,
              token_ids |-> other.token_ids]

PlainSelf == [stacks |-> plain.stacks,
              stacks_to_token_ids |-> plain.stacks_to_token_ids,
              token_ids |-> plain.token_ids]

\* the token ids a caller passes: Some(id) for the ids of the vocabulary, or None
Inputs == TokenIds(Vocab(case)) \cup {NoToken}

InputBytes(t) == IF t = NoToken THEN <<>> ELSE id_to_token(Vocab(case), t)

\* the default of the arena_capacity argument of the playground
ArenaCapacity == 1048576

\* the largest of the small arena capacities explored
MaxArenaCapacity == 8

\* a start nonterminal that no schema defines
UnknownName == "undefined"

\* the start nonterminals a caller may name for case c
StartNames(c) == DOMAIN Grammars[c].nonterminal_to_terminal_id \cup {UnknownName}

\* Sampler::new, lines 192-194 included: indexing nonterminal_to_terminal_id
\* with a name it does not hold panics, and no Sampler comes to be; nor does
\* one when Grammar::new has panicked before
NewOutcome(grammar, start) ==
    IF ~grammar.panicked /\ start \in DOMAIN grammar.nonterminal_to_terminal_id
    THEN [code |-> "None", sampler |-> SamplerNew(grammar, start)]
    ELSE [code |-> "Panic",
          sampler |-> [stacks |-> <<>>, stacks_to_token_ids |-> <<>>, token_ids |-> {}]]

\* no call of _match_stack_to_bytes is looked at by itself
NotMatching ==
    [called |-> FALSE, stack |-> <<>>, bytes |-> <<>>, bytes_index |-> 0,
     stack_offset |-> 0, find_all |-> FALSE,
     outcome |-> [found |-> FALSE, shortest_failed_index |-> USIZE_MAX, result |-> <<>>]]

\* Sampler::new for a case of cases and a stack_arena_capacity of
\* capacities; the start nonterminal is the one of the case, or any of
\* StartNames when any_start
NewSampler(cases, capacities, any_start) ==
    /\ case \in cases
    /\ stack_arena_capacity \in capacities
    /\ stack_to_bytes_cache_enabled \in BOOLEAN
    /\ reversed \in BOOLEAN
    /\ start_nonterminal \in IF any_start THEN StartNames(case) ELSE {AllCases[case].start}
    /\ LET n == NewOutcome(Grammars[case], start_nonterminal)
           s == n.sampler
       IN  /\ result = [op |-> "new", input |-> NoToken, code |-> n.code, tokens |-> {}]
           /\ stacks = s.stacks
           /\ stacks_to_token_ids = s.stacks_to_token_ids
           /\ token_ids = s.token_ids
           /\ plain = [stacks |-> s.stacks,
                       stacks_to_token_ids |-> s.stacks_to_token_ids,
                       token_ids |-> s.token_ids, code |-> n.code, tokens |-> {}]
           /\ before = s.stacks
           /\ other = [stacks |-> s.stacks,
                       stacks_to_token_ids |-> s.stacks_to_token_ids,
                       token_ids |-> s.token_ids, code |-> n.code, tokens |-> {},
                       history |-> <<>>, calls |-> 0]
    /\ accepted = <<>>
    /\ accepted_ids = <<>>
    /\ history = <<>>

\* no TerminalsTrie and no StackArena is looked at by itself
NoTrieCalls ==
    [trie |-> EmptyTrie, calls |-> 0, excepts |-> 0,
     last |-> [op |-> "new", terminal |-> <<>>, nonterminal_id |-> 0, can_stop |-> FALSE,
               node |-> 0, backwards |-> FALSE, yielded |-> <<>>]]

NoArenaCalls ==
    [arena |-> <<>>, current_ptr |-> 0, stacks |-> <<>>, calls |-> 0,
     last |-> [op |-> "none", capacity |-> 0, stack |-> 0, value |-> 0, before |-> <<>>]]

\* the Sampler with its arena as BufferArena::with_capacity leaves it
NewSamplerArena(cases, capacities, any_start) ==
    /\ NewSampler(cases, capacities, any_start)
    /\ stack_arena = [current_ptr |-> 0]

New(cases, capacities, any_start) ==
    /\ NewSamplerArena(cases, capacities, any_start)
    /\ matching = NotMatching
    /\ trie_calls = NoTrieCalls
    /\ arena_calls = NoArenaCalls

Init == New(CaseIds, {ArenaCapacity}, FALSE)

\* the engines built with an arena of a few slots
ArenaInit == New(CaseIds, 1..MaxArenaCapacity, FALSE)

CanCall == Len(history) < MaxCalls /\ result.code \notin {"Panic", "ArenaExhausted"}

\* the state after accept_a_token(t) has returned r on the engine and p on
\* the engine without the byte cache
AcceptTokenReturns(t, r, p) ==
    /\ stacks' = r.sampler.stacks
    /\ stacks_to_token_ids' = r.sampler.stacks_to_token_ids
    /\ token_ids' = r.sampler.token_ids
    /\ result' = [op |-> "accept", input |-> t, code |-> r.result, tokens |-> {}]
    /\ plain' = [stacks |-> p.sampler.stacks,
                 stacks_to_token_ids |-> p.sampler.stacks_to_token_ids,
                 token_ids |-> p.sampler.token_ids,
                 code |-> p.result, tokens |-> {}]
    /\ accepted' = IF r.result \in {"Continue", "End"}
                   THEN accepted \o InputBytes(t) ELSE accepted
    /\ accepted_ids' = IF t # NoToken /\ r.result \in {"Continue", "End"}
                       THEN Append(accepted_ids, t) ELSE accepted_ids
    /\ before' = stacks
    /\ history' = Append(history, <<"accept", t>>)
    /\ stack_arena' = [current_ptr |-> r.ptr]
    /\ UNCHANGED <<case, stack_to_bytes_cache_enabled, reversed, stack_arena_capacity,
                   start_nonterminal, other, matching, trie_calls, arena_calls>>

\* Sampler::accept_a_token(token_id)
AcceptToken(t) ==
    /\ CanCall
    /\ AcceptTokenReturns(t, accept_a_token(Env, Vocab(case), Self, t),
                          accept_a_token(PlainEnv, Vocab(case), PlainSelf, t))

\* the state after all_possible_next_tokens(t) has returned r on the engine
\* and p on the engine without the byte cache
AllPossibleNextTokensReturns(t, r, p) ==
    /\ stacks' = r.sampler.stacks
    /\ stacks_to_token_ids' = r.sampler.stacks_to_token_ids
    /\ token_ids' = r.sampler.token_ids
    /\ result' = [op |-> "next", input |-> t, code |-> r.result,
                  tokens |-> r.tokens]
    /\ plain' = [stacks |-> p.sampler.stacks,
                 stacks_to_token_ids |-> p.sampler.stacks_to_token_ids,
                 token_ids |-> p.sampler.token_ids,
                 code |-> p.result, tokens |-> p.tokens]
    /\ accepted' = IF r.result \in {"Continue", "End", "Panic"}
                   THEN accepted \o InputBytes(t) ELSE accepted
    /\ accepted_ids' = IF t # NoToken /\ r.result \in {"Continue", "End", "Panic"}
                       THEN Append(accepted_ids, t) ELSE accepted_ids
    /\ before' = stacks
    /\ history' = Append(history, <<"next", t>>)
    /\ stack_arena' = [current_ptr |-> r.ptr]
    /\ UNCHANGED <<case, stack_to_bytes_cache_enabled, reversed, stack_arena_capacity,
                   start_nonterminal, other, matching, trie_calls, arena_calls>>

\* Sampler::all_possible_next_tokens(input_token_id)
AllPossibleNextTokens(t) ==
    /\ CanCall
    /\ AllPossibleNextTokensReturns(t,
           all_possible_next_tokens(Env, Vocab(case), Self, t),
           all_possible_next_tokens(PlainEnv, Vocab(case), PlainSelf, t))

\* Sampler::reset()
Reset ==
    /\ CanCall
    /\ stacks' = SamplerReset(Grammars[case], start_nonterminal, Self).stacks
    /\ plain' = [plain EXCEPT
                   !.stacks = SamplerReset(Grammars[case], start_nonterminal,
                                           PlainSelf).stacks,
                   !.code = "None", !.tokens = {}]
    /\ result' = [op |-> "reset", input |-> NoToken, code |-> "None", tokens |-> {}]
    /\ before' = stacks
    /\ accepted' = <<>>
    /\ accepted_ids' = <<>>
    /\ history' = Append(history, <<"reset", NoToken>>)
    /\ UNCHANGED <<case, stack_to_bytes_cache_enabled, reversed,
                   stacks_to_token_ids, token_ids, stack_arena_capacity,
                   start_nonterminal, other, matching, stack_arena,
                   trie_calls, arena_calls>>

OtherCanCall == other.code \notin {"Panic", "ArenaExhausted"}

\* the state after a call of the further Sampler has returned r
OtherReturns(op, t, r, tokens) ==
    /\ other' = [stacks |-> r.sampler.stacks,
                 stacks_to_token_ids |-> r.sampler.stacks_to_token_ids,
                 token_ids |-> r.sampler.token_ids,
                 code |-> r.result, tokens |-> tokens,
                 history |-> Append(other.history, <<op, t>>),
                 calls |-> other.calls + 1]
    /\ UNCHANGED <<case, stack_to_bytes_cache_enabled, reversed, stacks,
                   stacks_to_token_ids, token_ids, result, plain, before, accepted,
                   accepted_ids, history, stack_arena_capacity, start_nonterminal,
                   matching, stack_arena,
                   trie_calls, arena_calls>>

OtherNextReturns(t, r) == OtherReturns("next", t, r, r.tokens)

\* Sampler::accept_a_token(token_id) on the further Sampler
OtherAcceptToken(t) ==
    /\ OtherCanCall
    /\ OtherReturns("accept", t, accept_a_token(Env, Vocab(case), OtherSelf, t), {})

\* Sampler::all_possible_next_tokens(input_token_id) on the further Sampler
OtherAllPossibleNextTokens(t) ==
    /\ OtherCanCall
    /\ OtherNextReturns(t, all_possible_next_tokens(Env, Vocab(case), OtherSelf, t))

\* Sampler::clone (derived, line 39): the further Sampler becomes a copy of
\* the first, before it has been called
Clone ==
    /\ other.calls = 0
    /\ other.history # history
    /\ other' = [stacks |-> stacks, stacks_to_token_ids |-> stacks_to_token_ids,
                 token_ids |-> token_ids, code |-> result.code,
                 tokens |-> result.tokens, history |-> history, calls |-> 0]
    /\ UNCHANGED <<case, stack_to_bytes_cache_enabled, reversed, stacks,
                   stacks_to_token_ids, token_ids, result, plain, before, accepted,
                   accepted_ids, history, stack_arena_capacity, start_nonterminal,
                   matching, stack_arena,
                   trie_calls, arena_calls>>

Next ==
    \/ \E t \in Inputs : AcceptToken(t)
    \/ \E t \in Inputs : AllPossibleNextTokens(t)
    \/ Reset

Spec == Init /\ [][Next]_vars

ArenaSpec == ArenaInit /\ [][Next]_vars

\* the number of calls made on two Samplers together
MaxTwoCalls == 2

TwoCanCall == Len(history) + other.calls < MaxTwoCalls

\* two Samplers on one Grammar and Vocabulary, called in any order
TwoNext ==
    \/ TwoCanCall /\ Next
    \/ \E t \in Inputs : TwoCanCall /\ OtherAcceptToken(t)
    \/ \E t \in Inputs : TwoCanCall /\ OtherAllPossibleNextTokens(t)
    \/ Clone

TwoInit == New(TwoCaseIds, {ArenaCapacity}, FALSE)

TwoSpec == TwoInit /\ [][TwoNext]_vars

\* the engines built with any start nonterminal a caller may name
StartInit == New(CaseIds, {ArenaCapacity}, TRUE)

StartSpec == StartInit /\ [][Next]_vars

\* the engine of the scenarios
ScenarioInit == New({ScenarioCaseId}, {ArenaCapacity}, FALSE)

ScenarioSpec == ScenarioInit /\ [][Next]_vars

\* the schemas with any! and except!
MacroCaseIds == {AnyScenarioCaseId, ExceptCaseId, ExceptNonterminalCaseId, ExceptUndefinedCaseId}

\* Grammar::new and Sampler::new on the schemas with any! and except!
MacroInit == New(MacroCaseIds, {ArenaCapacity}, FALSE)

MacroSpec == MacroInit /\ [][Next]_vars

\* an arena capacity that is enough for every call on one of Cases
AmpleArenaCapacity == 64

\* the cases and a schema whose start nonterminal is left-recursive, with
\* an ample arena
LeftRecursiveInit == New(CaseIds \cup {LeftRecursiveCaseId}, {AmpleArenaCapacity}, FALSE)

LeftRecursiveSpec == LeftRecursiveInit /\ [][Next]_vars

\* ------------------------------------------------------------------------
\* The language of a schema, read off its productions
\* ------------------------------------------------------------------------

\* the right-hand sides of a nonterminal; <any!> stands for any one token of
\* the vocabulary
Rules(c, name) ==
    IF name = ANY_NONTERMINAL_NAME
    THEN SingleTerminalAlts(token_to_id_keys(Vocab(c)))
    ELSE LET RECURSIVE Collect(_)
             Collect(prods) ==
                 IF prods = <<>> THEN <<>>
                 ELSE (IF Head(prods).lhs = name THEN Head(prods).rhs ELSE <<>>)
                      \o Collect(Tail(prods))
         IN  Collect(AllCases[c].input)

\* the sentential form (a sequence of terms) derives exactly the bytes s
RECURSIVE Derives(_, _, _)
Derives(c, form, s) ==
    IF form = <<>> THEN s = <<>>
    ELSE LET h == Head(form)
         IN  IF h.t = "Terminal"
             THEN /\ IsPrefix(h.bytes, s)
                  /\ Derives(c, Tail(form), Tail0(s, Len(h.bytes)))
             ELSE \E a \in 1..Len(Rules(c, h.name)) :
                     Derives(c, Rules(c, h.name)[a] \o Tail(form), s)

\* the names of the nonterminals that derive some byte string
RECURSIVE ProductiveFrom(_, _)
ProductiveFrom(c, S) ==
    LET names == {AllCases[c].input[p].lhs : p \in 1..Len(AllCases[c].input)}
                 \cup {ANY_NONTERMINAL_NAME}
        T == S \cup {n \in names :
                      \E a \in 1..Len(Rules(c, n)) :
                         \A k \in 1..Len(Rules(c, n)[a]) :
                            \/ Rules(c, n)[a][k].t = "Terminal"
                            \/ Rules(c, n)[a][k].name \in S}
    IN  IF T = S THEN S ELSE ProductiveFrom(c, T)

Productive(c, form) ==
    \A k \in 1..Len(form) :
        form[k].t = "Terminal" \/ form[k].name \in ProductiveFrom(c, {})

\* the sentential form derives some byte string that starts with s
RECURSIVE DerivesExtension(_, _, _)
DerivesExtension(c, form, s) ==
    IF s = <<>> THEN Productive(c, form)
    ELSE IF form = <<>> THEN FALSE
    ELSE LET h == Head(form)
         IN  IF h.t = "Terminal"
             THEN IF Len(s) <= Len(h.bytes)
                  THEN IsPrefix(s, h.bytes) /\ Productive(c, Tail(form))
                  ELSE /\ IsPrefix(h.bytes, s)
                       /\ DerivesExtension(c, Tail(form), Tail0(s, Len(h.bytes)))
             ELSE \E a \in 1..Len(Rules(c, h.name)) :
                     DerivesExtension(c, Rules(c, h.name)[a] \o Tail(form), s)

\* s is a string of L(G) of the case
InLanguage(c, s) == Derives(c, <<Nonterminal(AllCases[c].start)>>, s)

\* s is a prefix of some string of L(G) of the case
IsLanguagePrefix(c, s) == DerivesExtension(c, <<Nonterminal(AllCases[c].start)>>, s)

\* ------------------------------------------------------------------------
\* _match_stack_to_bytes called by itself
\* ------------------------------------------------------------------------

\* the longest demand given to _match_stack_to_bytes
MaxDemandLen == 3

\* the cases whose right-hand sides keep Terminal items of several bytes
MatchCaseIds == {c \in 1..Len(AllCases) : AllCases[c] \in {RepeatCase, MatchCase}}

\* the byte strings of 1 to MaxDemandLen bytes of the vocabulary of case c
Demands(c) ==
    UNION { [1..n -> UNION { SeqToSet(Vocab(c)[t]) : t \in 1..Len(Vocab(c)) }] :
              n \in 1..MaxDemandLen }

\* the stack items of a grammar: every Terminal of its right-hand sides,
\* whole or with some of its first bytes taken off, and every Nonterminal
MatchItems(grammar) ==
    LET expr == grammar.nonterminal_id_to_expression
    IN  { StackItemNonterminal(id) : id \in DOMAIN expr }
        \cup UNION { UNION { UNION {
                { [StackItemTerminal(grammar, id, e, j, 0) EXCEPT !.off = off] :
                    off \in { off \in 0..Len(expr[id].alts[e][j].bytes) :
                               off = 0 \/ off < Len(expr[id].alts[e][j].bytes) } } :
                j \in { j \in DOMAIN expr[id].alts[e] : expr[id].alts[e][j].t = "Terminal" } } :
                e \in DOMAIN expr[id].alts } :
                id \in { id \in DOMAIN expr : expr[id].kind = "Expressions" } }

\* the stacks of one item, and of an item and the item below it
MatchStacks(grammar) ==
    { <<top>> : top \in MatchItems(grammar) }
    \cup { <<below, top>> : below \in MatchItems(grammar), top \in MatchItems(grammar) }

\* a Sampler of a case, and the arguments of a call of
\* _match_stack_to_bytes on a Terminal: a stack of the grammar, an offset
\* that holds a Terminal, demand bytes and a position in them
MatchInit ==
    /\ NewSamplerArena(MatchCaseIds, {ArenaCapacity}, FALSE)
    /\ trie_calls = NoTrieCalls
    /\ arena_calls = NoArenaCalls
    /\ ~stack_to_bytes_cache_enabled
    /\ ~reversed
    /\ \E stack \in MatchStacks(Grammars[case]) :
       \E stack_offset \in { o \in 0..(Len(stack) - 1) : stack[o + 1].k = "Terminal" } :
       \E bytes \in Demands(case) :
       \E bytes_index \in 0..(Len(bytes) - 1) :
       \E find_all \in BOOLEAN :
           matching = [NotMatching EXCEPT !.stack = stack, !.bytes = bytes,
                                          !.bytes_index = bytes_index,
                                          !.stack_offset = stack_offset,
                                          !.find_all = find_all]

\* _match_stack_to_bytes, lines 395-535, on the arguments of matching
MatchStackToBytes ==
    /\ ~matching.called
    /\ matching.stack # <<>>
    /\ matching' = [matching EXCEPT
                       !.called = TRUE,
                       !.outcome = MatchRec(Grammars[case], matching.stack,
                                            matching.bytes, matching.bytes_index,
                                            matching.stack_offset, matching.find_all,
                                            matching.outcome)]
    /\ UNCHANGED <<case, stack_to_bytes_cache_enabled, reversed, stacks,
                   stacks_to_token_ids, token_ids, result, plain, before, accepted,
                   accepted_ids, history, stack_arena_capacity, start_nonterminal,
                   other, stack_arena, trie_calls, arena_calls>>

MatchNext == MatchStackToBytes

MatchSpec == MatchInit /\ [][MatchNext]_vars

\* ------------------------------------------------------------------------
\* Properties
\* ------------------------------------------------------------------------

Token(id) == id_to_token(Vocab(case), id)

\* the successor stacks of the stacks the last call started from, for the
\* bytes of its input token (the first pass of accept_a_token)
Successors ==
    AcceptLoop(Env, before, SomeBytes(InputBytes(result.input)), 0, FALSE, <<>>, 0).out

\* C1: a call that returns Failed (InputTokenRejected for
\* all_possible_next_tokens) leaves the set of stacks as it was before the call.
C1_FailurePreservesStacks ==
    result.code \in {"Failed", "InputTokenRejected"}
        => SeqToSet(stacks) = SeqToSet(before)

\* C2: every token id returned by all_possible_next_tokens extends the bytes
\* accepted so far to a prefix of some string of L(G).
C2_Soundness ==
    (result.op = "next" /\ result.code = "Continue")
        => \A id \in result.tokens : IsLanguagePrefix(case, accepted \o Token(id))

\* C3: every token of the vocabulary that extends the bytes accepted so far
\* to a prefix of some string of L(G) is in the set all_possible_next_tokens
\* returns.
C3_Completeness ==
    (result.op = "next" /\ result.code = "Continue")
        => \A id \in TokenIds(Vocab(case)) :
              IsLanguagePrefix(case, accepted \o Token(id)) => id \in result.tokens

\* C4: accept_a_token(t) returns End when at least one successor stack is
\* empty (whatever the other successors are), Failed when no stack matches t,
\* and Continue otherwise.
C4_ResultCodes ==
    (result.op = "accept" /\ result.input # NoToken)
        => result.code =
             IF \E x \in 1..Len(Successors) : Successors[x] = <<>> THEN "End"
             ELSE IF Successors = <<>> THEN "Failed"
             ELSE "Continue"

FailedPrefixs(stack, token) ==
    Find(PlainEnv, stack, SomeBytes(token), FALSE, World(<<>>, <<>>, ArenaCapacity)).w.failed

Matchable(stack, token) ==
    Find(PlainEnv, stack, SomeBytes(token), FALSE, World(<<>>, <<>>, ArenaCapacity)).ok

Candidates(stack) ==
    SeqToSet(BufferOrTreeIter(Grammars[case], Vocab(case), stack[Len(stack)]))

\* C6: when a candidate token is rejected for a stack and a failing prefix is
\* recorded for that stack, no token of the vocabulary that begins with the
\* recorded prefix is matchable from that stack.
C6_PruningSoundness ==
    (result.op = "next" /\ result.code = "Continue")
        => \A x \in 1..Len(stacks) :
             \A u \in Candidates(stacks[x]) :
               ~Matchable(stacks[x], u)
                 => \A p \in FailedPrefixs(stacks[x], u) :
                      \A v \in SeqToSet(Vocab(case)) :
                        IsPrefix(p, v) => ~Matchable(stacks[x], v)

\* C7: with the byte cache enabled every call returns what it returns with
\* the cache disabled, and leaves the same stacks.
C7_CacheTransparency ==
    stack_to_bytes_cache_enabled
        => /\ result.code = plain.code
           /\ result.tokens = plain.tokens
           /\ SeqToSet(stacks) = SeqToSet(plain.stacks)

\* what all_possible_next_tokens(None) returns on a newly built engine
FreshResult ==
    LET r == all_possible_next_tokens(Env, Vocab(case),
                 SamplerNew(Grammars[case], start_nonterminal), NoToken)
    IN  [code |-> r.result, tokens |-> r.tokens, stacks |-> r.sampler.stacks]

ResetThenNext ==
    /\ Len(history) >= 2
    /\ history[Len(history)] = <<"next", NoToken>>
    /\ history[Len(history) - 1] = <<"reset", NoToken>>

\* C8: after any sequence of calls, reset followed by
\* all_possible_next_tokens(None) returns the result a newly built engine
\* returns, and reaches the same stacks.
C8_ResetRoundTrip ==
    ResetThenNext
        => /\ result.code = FreshResult.code
           /\ result.tokens = FreshResult.tokens
           /\ stacks = FreshResult.stacks

\* a first call moved the engine on to other stacks and stored their token
\* ids, then reset and all_possible_next_tokens(None) were called
C8_Witness ==
    /\ ResetThenNext
    /\ Len(history) = 3
    /\ history[1][1] = "next"
    /\ history[1][2] # NoToken
    /\ Cardinality(DOMAIN stacks_to_token_ids) >= 2
    /\ result.code = "Continue"
    /\ result.tokens # {}

\* two stack items are equal when terminals are compared by their bytes
SameItem(a, b) ==
    /\ a.k = b.k
    /\ IF a.k = "Terminal"
       THEN TerminalBytes(Grammars[case], a) = TerminalBytes(Grammars[case], b)
       ELSE a.id = b.id

SameStack(s, t) ==
    /\ Len(s) = Len(t)
    /\ \A y \in 1..Len(s) : SameItem(s[y], t[y])

\* C9 (as stated): no two of the active stacks are equal item by item, with
\* terminals compared by their bytes.
C9_NoEqualStacksByBytes ==
    \A x, y \in 1..Len(stacks) : x # y => ~SameStack(stacks[x], stacks[y])

\* C9 (amended): no two of the active stacks are equal under the derived
\* equality of StackItem, which compares a terminal by the slice of the
\* grammar it points to (address and length).
C9_NoEqualStacks ==
    \A x, y \in 1..Len(stacks) : x # y => stacks[x] # stacks[y]

\* after a token is accepted, two of the active stacks have the same bytes
\* and point to different right-hand sides
C9_Witness ==
    /\ result.op = "accept"
    /\ result.input # NoToken
    /\ result.code = "Continue"
    /\ \E x, y \in 1..Len(stacks) :
          /\ x # y
          /\ stacks[x] # <<>>
          /\ SameStack(stacks[x], stacks[y])

\* C11: a call during which an allocation exceeds the capacity of the
\* arena leaves the active stacks as they were before the call
C11_ExhaustionLeavesState ==
    result.code = "ArenaExhausted" => stacks = before

\* C12: every call of accept_a_token and all_possible_next_tokens comes to
\* a result of its own: with an ample arena no call ends because the
\* expansion of the nonterminals has used up the arena
C12_CallsComplete ==
    result.code # "ArenaExhausted"

\* C13 as stated: in every active stack a Nonterminal item occurs only at
\* the top position
C13_NonterminalOnlyAtTop ==
    \A x \in 1..Len(stacks) : \A i \in 1..(Len(stacks[x]) - 1) :
        stacks[x][i].k # "Nonterminal"

\* C13, amended: after a call that returned Continue no active stack has a
\* Nonterminal at its top; every Nonterminal lies below a Terminal or
\* Terminals item
C13_NoNonterminalAtTop ==
    result.code = "Continue" =>
        \A x \in 1..Len(stacks) :
            stacks[x] # <<>> => stacks[x][Len(stacks[x])].k \in {"Terminal", "Terminals"}

\* a call has returned Continue and left an active stack with a Nonterminal
\* below its top
C13_Witness ==
    /\ result.code = "Continue"
    /\ \E x \in 1..Len(stacks) : \E i \in 1..(Len(stacks[x]) - 1) :
           stacks[x][i].k = "Nonterminal"

\* C14: no call removes or changes an entry of the stacks-to-tokens cache,
\* and reset puts the active stacks back to the one stack of the start
\* nonterminal while it leaves the cache, the grammar and the vocabulary as
\* they are
C14_CacheOnlyGrows ==
    [][/\ \A k \in DOMAIN stacks_to_token_ids :
             /\ k \in DOMAIN stacks_to_token_ids'
             /\ stacks_to_token_ids'[k] = stacks_to_token_ids[k]
       /\ result'.op = "reset" =>
             /\ stacks' = SamplerNew(Grammars[case], start_nonterminal).stacks
             /\ stacks_to_token_ids' = stacks_to_token_ids
             /\ case' = case]_vars

\* reset has been called on an engine whose cache holds the tokens of two
\* stack sets
C14_Witness ==
    /\ result.op = "reset"
    /\ Cardinality(DOMAIN stacks_to_token_ids) >= 2

\* the Sampler that accept_a_token leaves when the token ids are given, one
\* after the other, to sampler
RECURSIVE ReplayAccepts(_, _)
ReplayAccepts(sampler, ids) ==
    IF ids = <<>> THEN sampler
    ELSE ReplayAccepts(accept_a_token(Env, Vocab(case), sampler, Head(ids)).sampler,
                       Tail(ids))

\* a new engine that has been given the accepted token ids and nothing else
Replayed == ReplayAccepts(SamplerNew(Grammars[case], start_nonterminal), accepted_ids)

\* C15: after a call that went through, the set of active stacks is the one
\* a new engine reaches when it is given the accepted token ids alone,
\* whatever queries without a token came in between and whatever the
\* stacks-to-tokens cache held; and the tokens a query returns are the ones
\* that new engine returns
C15_StacksFollowAcceptedIds ==
    (accepted_ids # <<>> /\ result.code \in {"Continue", "End"}) =>
        /\ SeqToSet(stacks) = SeqToSet(Replayed.stacks)
        /\ (result.op = "next" /\ result.code = "Continue") =>
               result.tokens =
                   all_possible_next_tokens(Env, Vocab(case), Replayed, NoToken).tokens

\* the outcome of one call on the Sampler of a = [sampler, code, tokens]
AloneAccept(a, r) == [sampler |-> r.sampler, code |-> r.result, tokens |-> {}]

AloneNext(a, r) == [sampler |-> r.sampler, code |-> r.result, tokens |-> r.tokens]

AloneStep(a, call) ==
    IF call[1] = "accept"
    THEN AloneAccept(a, accept_a_token(Env, Vocab(case), a.sampler, call[2]))
    ELSE IF call[1] = "next"
    THEN AloneNext(a, all_possible_next_tokens(Env, Vocab(case), a.sampler, call[2]))
    ELSE [sampler |-> SamplerReset(Grammars[case], start_nonterminal, a.sampler),
          code |-> "None", tokens |-> {}]

\* what a Sampler that is the only one on its Grammar and Vocabulary holds
\* and has returned after the calls of h, from call i on
RECURSIVE RunAlone(_, _, _)
RunAlone(a, h, i) ==
    IF i > Len(h) THEN a ELSE RunAlone(AloneStep(a, h[i]), h, i + 1)

Alone(h) ==
    RunAlone([sampler |-> SamplerNew(Grammars[case], start_nonterminal),
              code |-> "None", tokens |-> {}], h, 1)

\* C16: of two Samplers on the same Grammar and Vocabulary, one new or a
\* clone of the other, each holds and returns, under every interleaving of
\* their calls, what it holds and returns when it is given its calls alone
C16_EnginesDoNotInterfere ==
    /\ Alone(history) = [sampler |-> Self, code |-> result.code, tokens |-> result.tokens]
    /\ Alone(other.history) = [sampler |-> OtherSelf, code |-> other.code,
                               tokens |-> other.tokens]

\* both Samplers have been called, the further one last, and they hold
\* different stacks
C16_Witness ==
    /\ history # <<>>
    /\ other.calls > 0
    /\ other.stacks # stacks
    /\ Len(history) + other.calls = MaxTwoCalls

\* C17: Sampler::new with a start name that is no nonterminal of the grammar
\* fails with the error UnknownStartNonterminal; with a nonterminal of the
\* grammar the new engine holds the one stack [Nonterminal(start id)]
C17_Construction ==
    result.op = "new" =>
        IF start_nonterminal \in DOMAIN Grammars[case].nonterminal_to_terminal_id
        THEN /\ result.code = "None"
             /\ stacks = <<(<<StackItemNonterminal(
                    Grammars[case].nonterminal_to_terminal_id[start_nonterminal])>>)>>
        ELSE result.code = "UnknownStartNonterminal"

C19_AcceptA1Ends ==
    (case = ScenarioCaseId /\ history = <<(<<"accept", 9>>)>>) =>
        result.code = "End"

C21_AnyAdmitsAllTokens ==
    (case = AnyScenarioCaseId /\ history = <<(<<"accept", 0>>), <<"next", NoToken>>>>) =>
        /\ result.code = "Continue"
        /\ result.tokens = TokenIds(Vocab(case))
        /\ token_to_id(Vocab(case), <<"\"">>) \in result.tokens

\* the opening quote has been accepted and the query after it has returned
\* the token that has a byte after a quote
C21_Witness ==
    /\ case = AnyScenarioCaseId
    /\ history = <<(<<"accept", 0>>), <<"next", NoToken>>>>
    /\ id_to_token(Vocab(case), 0) = <<"\"">>
    /\ token_to_id(Vocab(case), <<"\"", "x">>) \in result.tokens

\* the quote token has been accepted by a new engine on ExceptCase and the
\* last call has returned the tokens that may follow
AfterOpeningQuote(c) ==
    /\ case = c
    /\ id_to_token(Vocab(case), 0) = <<"\"">>
    /\ \/ history = <<(<<"accept", 0>>), <<"next", NoToken>>>>
       \/ history = <<(<<"next", 0>>)>>

\* C22 as stated: on <s> ::= '"' <body> '"', <body> ::= <c><body> | '',
\* <c> ::= <except!('"')>, after the opening quote is accepted the tokens
\* returned are exactly those whose bytes hold no quote byte
C22_TokensWithoutQuote ==
    AfterOpeningQuote(ExceptCaseId) =>
        /\ result.code = "Continue"
        /\ result.tokens = {id \in TokenIds(Vocab(case)) : ~Contains(Token(id), <<"\"">>)}

\* C22, amended: after the opening quote is accepted the tokens returned
\* are exactly those in which no quote byte stands before the last byte: the
\* tokens without a quote byte, and the tokens that end with the quote that
\* closes the string
C22_TokensUpToClosingQuote ==
    AfterOpeningQuote(ExceptCaseId) =>
        /\ result.code = "Continue"
        /\ result.tokens = {id \in TokenIds(Vocab(case)) :
                              ~Contains(Head0(Token(id), Len(Token(id)) - 1), <<"\"">>)}

\* after the opening quote the query has returned the token x" and has not
\* returned the token "x
C22_Witness ==
    /\ AfterOpeningQuote(ExceptCaseId)
    /\ token_to_id(Vocab(case), <<"x", "\"">>) \in result.tokens
    /\ token_to_id(Vocab(case), <<"\"", "x">>) \notin result.tokens

\* C23: Grammar::new on a schema with except!([X]), X no nonterminal of the
\* schema, fails with the error UnknownExceptTarget, and no engine comes to
\* be on it
C23_UnknownExceptTarget ==
    (ExceptedNonterminal[ExceptUndefinedName] \notin DOMAIN Grammars[case].nonterminal_to_terminal_id
       /\ ExceptUndefinedName \in TermNames(AllCases[case].input)) =>
        /\ result.code = "UnknownExceptTarget"
        /\ stacks = <<>>

\* C24: after accept_a_token or all_possible_next_tokens has returned
\* Continue, with or without an input token, every active stack is non-empty
\* and has a Terminal or a TerminalsNode at its top; and no call of
\* all_possible_next_tokens ends in the expect "The stack should not be
\* empty." or the panic "No nonterminals should be here."
C24_CanonicalForm ==
    /\ (result.op \in {"accept", "next"} /\ result.code = "Continue") =>
          \A x \in 1..Len(stacks) :
              /\ Len(stacks[x]) >= 1
              /\ stacks[x][Len(stacks[x])].k # "Nonterminal"
              /\ stacks[x][Len(stacks[x])].k \in {"Terminal", "Terminals"}
    /\ result.op = "next" => result.code # "Panic"

\* accept_a_token(t) has returned Continue after the match of the bytes of t
\* left an empty stack beside others, and the stacks it leaves are non-empty
C24_Witness ==
    /\ result.op = "accept"
    /\ result.input # NoToken
    /\ result.code = "Continue"
    /\ \E x \in 1..Len(Successors) : Successors[x] = <<>>
    /\ Len(stacks) >= 1
    /\ \A x \in 1..Len(stacks) : stacks[x] # <<>>

\* The successor stacks as the grammar defines them, without the matcher:
\* CanonicalForms(grammar, stack) are the stacks that come of stack by
\* replacing a Nonterminal at the top by its right-hand sides until a
\* Terminal or a Terminals item is at the top; Consume(grammar, stack, bytes)
\* are the stacks that come of stack by taking exactly bytes off its items
\* from the top down; ConsumeInTrie follows the children of a trie node and
\* leaves the trie at a node that has a value.
RECURSIVE CanonicalForms(_, _)
CanonicalForms(grammar, stack) ==
    IF stack = <<>> THEN {stack}
    ELSE IF stack[Len(stack)].k # "Nonterminal" THEN {stack}
    ELSE IF grammar.nonterminal_id_to_expression[stack[Len(stack)].id].kind = "Expressions"
    THEN UNION { CanonicalForms(grammar,
                     Head0(stack, Len(stack) - 1)
                       \o PushTerms(grammar, stack[Len(stack)].id, e,
                              Len(grammar.nonterminal_id_to_expression[stack[Len(stack)].id].alts[e]))) :
                 e \in DOMAIN grammar.nonterminal_id_to_expression[stack[Len(stack)].id].alts }
    ELSE {Append(Head0(stack, Len(stack) - 1),
                 StackItemTerminals(grammar.nonterminal_id_to_expression[stack[Len(stack)].id].node))}

RECURSIVE Consume(_, _, _)
RECURSIVE ConsumeInTrie(_, _, _, _, _)
ConsumeInTrie(grammar, below, node_id, bytes, walked) ==
    LET node == TrieGet(grammar.terminals_trie, node_id)
    IN  IF bytes = <<>>
        THEN (IF node.has_value THEN {below} ELSE {})
             \cup (IF node.children # <<>> /\ node.can_stop
                   THEN {Append(below, StackItemTerminals(node_id))} ELSE {})
        ELSE (IF walked /\ node.has_value THEN Consume(grammar, below, bytes) ELSE {})
             \cup (IF Head(bytes) \in DOMAIN node.children
                   THEN IF TrieGet(grammar.terminals_trie, node.children[Head(bytes)]).negative_bytes_index
                             # NoNegativeIndex
                        THEN {}
                        ELSE ConsumeInTrie(grammar, below, node.children[Head(bytes)],
                                           Tail(bytes), TRUE)
                   ELSE {})

Consume(grammar, stack, bytes) ==
    IF bytes = <<>> THEN {stack}
    ELSE IF stack = <<>> THEN {}
    ELSE LET top   == stack[Len(stack)]
             below == Head0(stack, Len(stack) - 1)
         IN  CASE top.k = "Nonterminal" ->
                    UNION { Consume(grammar, s, bytes) :
                              s \in CanonicalForms(grammar, stack) \ {stack} }
               [] top.k = "Terminal" ->
                    LET b == TerminalBytes(grammar, top)
                    IN  IF IsPrefix(b, bytes) THEN Consume(grammar, below, Tail0(bytes, Len(b)))
                        ELSE IF IsPrefix(bytes, b)
                        THEN {Append(below, [top EXCEPT !.off = top.off + Len(bytes)])}
                        ELSE {}
               [] top.k = "Terminals" ->
                    ConsumeInTrie(grammar, below, top.id, bytes, FALSE)

\* the canonical forms of the stacks that come of the stacks by taking
\* exactly bytes; the empty stack, which has no top, is left out
SuccessorSet(grammar, old, bytes) ==
    UNION { UNION { CanonicalForms(grammar, s) : s \in Consume(grammar, old[x], bytes) } :
              x \in 1..Len(old) } \ {<<>>}

C26_QueryAcceptConsistency ==
    (result.op = "next" /\ result.code = "Continue") =>
        \A id \in TokenIds(Vocab(case)) :
            id \in result.tokens
                <=> accept_a_token(Env, Vocab(case), Self, id).result # "Failed"

\* lines 224-315 computed afresh for the stacks in a given order, the
\* candidate tokens of every stack taken in the order of the iterator or,
\* with backwards, in the opposite order
RECURSIVE TokensInOrder(_, _, _, _, _, _)
TokensInOrderStep(env, vocab, ordered, backwards, x, t) ==
    TokensInOrder(env, vocab, ordered, backwards, x + 1, t)

TokensInOrder(env, vocab, ordered, backwards, x, t) ==
    IF x > Len(ordered) THEN t.token_ids
    ELSE TokensInOrderStep(env, vocab, ordered, backwards, x,
             TokensLoop(env, vocab, ordered[x],
                        IF backwards
                        THEN Reverse(BufferOrTreeIter(env.grammar, vocab,
                                                      ordered[x][Len(ordered[x])]))
                        ELSE BufferOrTreeIter(env.grammar, vocab,
                                              ordered[x][Len(ordered[x])]),
                        [token_ids |-> t.token_ids, cache |-> t.cache, failed |-> {},
                         exhausted |-> FALSE, ptr |-> 0]))

FreshTokens(env, ordered, backwards) ==
    TokensInOrder(env, Vocab(case), ordered, backwards, 1,
                  [token_ids |-> SkippedTokenIds(env.grammar, ordered), cache |-> <<>>])

\* C27: for the active stacks left by a call of all_possible_next_tokens
\* that returned Continue, the set of legal token ids computed by lines
\* 224-315 is the same when the stacks are visited in the opposite order and
\* when the candidate tokens of every stack are tried in the opposite order
C27_OrderIndependence ==
    (result.op = "next" /\ result.code = "Continue") =>
        \A backwards \in BOOLEAN : \A ordered \in {stacks, Reverse(stacks)} :
            FreshTokens(Env, ordered, backwards) = FreshTokens(Env, stacks, FALSE)

\* C28: for every active stack left by a call that returned Continue, the
\* candidate tokens BufferOrTreeIter yields for the top of the stack include
\* every token of the vocabulary that the matcher accepts from that stack,
\* the tokens shorter than a Terminal at the top among them
C28_CandidatesCoverMatchable ==
    result.code = "Continue" =>
        \A x \in 1..Len(stacks) :
            \A v \in SeqToSet(Vocab(case)) :
                Matchable(stacks[x], v) => v \in Candidates(stacks[x])

\* C29: whenever all_possible_next_tokens finds the active stacks among the
\* keys of stacks_to_token_ids and returns the set stored for them, that set
\* is the set lines 224-315 compute afresh for these stacks, from a cleared
\* token_ids and an empty stack_to_bytes_cache: no id that an earlier call
\* left in token_ids is in it
C29_CacheCoherence ==
    [][(/\ history' # history
        /\ result'.op = "next"
        /\ result'.code = "Continue"
        /\ stacks' \in DOMAIN stacks_to_token_ids)
           => result'.tokens = FreshTokens(Env, stacks', FALSE)]_vars

\* all_possible_next_tokens(None) has stored a set of ids for the first
\* stacks, all_possible_next_tokens(t) another set for the stacks after t,
\* and a further all_possible_next_tokens(None) has found these stacks among
\* the keys and returned the set stored for them
C29_Witness ==
    /\ Len(history) = 3
    /\ stacks = before
    /\ history[1] = <<"next", NoToken>>
    /\ history[2][1] = "next" /\ history[2][2] # NoToken
    /\ history[3] = <<"next", NoToken>>
    /\ result.code = "Continue"
    /\ result.tokens # {}
    /\ Cardinality(DOMAIN stacks_to_token_ids) = 2
    /\ \E k \in DOMAIN stacks_to_token_ids : stacks_to_token_ids[k] # result.tokens

\* the arguments of the call of _match_stack_to_bytes looked at: the bytes
\* b of the Terminal at the offset and the demand from the position on
MatchedTerminal == TerminalBytes(Grammars[case], matching.stack[matching.stack_offset + 1])

DemandTail == Tail0(matching.bytes, matching.bytes_index)

MaxWalkLen == 4

\* the cases with tries: nodes with can_stop, nodes with
\* negative_bytes_index 1 and 3
WalkCaseIds == {c \in 1..Len(AllCases) : AllCases[c] \in {DnaCase, ExceptCase, ExceptRunCase}}

\* the bytes on the edges at and below a node
RECURSIVE SubTrieBytes(_, _)
SubTrieBytes(trie, node_id) ==
    DOMAIN TrieGet(trie, node_id).children
    \cup UNION { SubTrieBytes(trie, TrieGet(trie, node_id).children[b]) :
                  b \in DOMAIN TrieGet(trie, node_id).children }

\* the bytes that the items of a stack can match
StackBytes(grammar, stack) ==
    UNION { IF stack[x].k = "Terminals" THEN SubTrieBytes(grammar.terminals_trie, stack[x].id)
            ELSE IF stack[x].k = "Terminal" THEN SeqToSet(TerminalBytes(grammar, stack[x]))
            ELSE {} : x \in 1..Len(stack) }

\* the byte strings of 1 to MaxWalkLen of these bytes
WalkDemands(grammar, stack) == UNION { [1..n -> StackBytes(grammar, stack)] : n \in 1..MaxWalkLen }

\* the Terminals items that come to lie on a stack: the root of a
\* nonterminal (lines 624-632) and a node that line 516 hands back, one
\* with children and can_stop
WalkItems(grammar) ==
    { StackItemTerminals(grammar.nonterminal_id_to_expression[id].node) :
        id \in { id \in DOMAIN grammar.nonterminal_id_to_expression :
                   grammar.nonterminal_id_to_expression[id].kind = "Terminals" } }
    \cup { StackItemTerminals(n - 1) :
             n \in { n \in 1..Len(grammar.terminals_trie.arena) :
                       /\ grammar.terminals_trie.arena[n].children # <<>>
                       /\ grammar.terminals_trie.arena[n].can_stop } }

\* the stacks of one Terminals item, and of one with an item below it
WalkStacks(grammar) ==
    { <<top>> : top \in WalkItems(grammar) }
    \cup { <<below, top>> : below \in MatchItems(grammar) \cup WalkItems(grammar),
                            top \in WalkItems(grammar) }

\* a Sampler of a case, and the arguments of a call of
\* _match_stack_to_bytes on a Terminals item at the top of the stack
WalkInit ==
    /\ NewSamplerArena(WalkCaseIds, {ArenaCapacity}, FALSE)
    /\ trie_calls = NoTrieCalls
    /\ arena_calls = NoArenaCalls
    /\ ~stack_to_bytes_cache_enabled
    /\ ~reversed
    /\ \E stack \in WalkStacks(Grammars[case]) :
       \E bytes \in WalkDemands(Grammars[case], stack) :
       \E bytes_index \in 0..(Len(bytes) - 1) :
       \E find_all \in BOOLEAN :
           matching = [NotMatching EXCEPT !.stack = stack, !.bytes = bytes,
                                          !.bytes_index = bytes_index,
                                          !.stack_offset = Len(stack) - 1,
                                          !.find_all = find_all]

WalkNext == MatchStackToBytes

WalkSpec == WalkInit /\ [][WalkNext]_vars

\* the nodes below node_id along bytes, as far as there are children
RECURSIVE NodesAlong(_, _, _)
NodesAlong(trie, node_id, bytes) ==
    IF bytes = <<>> \/ Head(bytes) \notin DOMAIN TrieGet(trie, node_id).children THEN <<>>
    ELSE <<TrieGet(trie, node_id).children[Head(bytes)]>>
         \o NodesAlong(trie, TrieGet(trie, node_id).children[Head(bytes)], Tail(bytes))

\* the nodes of the call of matching: those below the Terminals item along
\* the demand from bytes_index on
WalkedNodes ==
    NodesAlong(Grammars[case].terminals_trie,
               matching.stack[matching.stack_offset + 1].id,
               Tail0(matching.bytes, matching.bytes_index))

\* the depths at which walked has a node with negative_bytes_index
MarkedDepths(trie, walked) ==
    { p \in 1..Len(walked) : TrieGet(trie, walked[p]).negative_bytes_index # NoNegativeIndex }

\* the depth at which the walk stops for such a node, 0 when there is none
StopDepth(marked) == IF marked = {} THEN 0 ELSE CHOOSE q \in marked : \A p \in marked : q <= p

\* the depths of the value-marked nodes before the last byte of the demand
\* that lie at least k bytes before the node with negative_bytes_index = k
\* at depth stop
RecurseDepths(trie, walked, stop) ==
    { p \in 1..Len(walked) :
        /\ p < Len(matching.bytes) - matching.bytes_index
        /\ TrieGet(trie, walked[p]).has_value
        /\ stop # 0 => p <= stop - TrieGet(trie, walked[stop]).negative_bytes_index }

\* the outcomes of the tails after the depths of S, by increasing depth, each
\* matched against the stack below the Terminals item
RECURSIVE TailOutcomes(_)
TailOutcomes(S) ==
    IF S = {} \/ matching.stack_offset = 0 THEN <<>>
    ELSE LET p == CHOOSE x \in S : \A y \in S : x <= y
         IN  MatchRec(Grammars[case], matching.stack, matching.bytes,
                      matching.bytes_index + p, matching.stack_offset - 1, TRUE,
                      NotMatching.outcome).result
             \o TailOutcomes(S \ {p})

\* the leaves of a walk that has come to the end of the demand at node
\* final_id
LeafOutcomes(final_id, final) ==
    (IF final.children # <<>> /\ final.can_stop
     THEN <<BytesMatchResult(INVALID_INDEX, matching.stack_offset,
                             StackItemTerminals(final_id))>>
     ELSE <<>>)
    \o (IF final.has_value
        THEN <<BytesMatchResult(INVALID_INDEX, matching.stack_offset, NoItem)>>
        ELSE <<>>)

\* all outcomes of the call of matching: leaves only when the walk comes to
\* the end of the demand and meets no node with negative_bytes_index
AllOutcomes(trie, walked, stop) ==
    TailOutcomes(RecurseDepths(trie, walked, stop))
    \o (IF stop = 0 /\ Len(walked) = Len(matching.bytes) - matching.bytes_index
        THEN LeafOutcomes(walked[Len(walked)], TrieGet(trie, walked[Len(walked)]))
        ELSE <<>>)

\* what the call of matching has recorded, against all outcomes
RecordedOf(all) ==
    IF matching.find_all THEN matching.outcome.result = all
    ELSE /\ IsPrefix(matching.outcome.result, all)
         /\ matching.outcome.result = <<>> <=> all = <<>>

RecordedAlong(trie, walked) ==
    RecordedOf(AllOutcomes(trie, walked, StopDepth(MarkedDepths(trie, walked))))

\* C31: a call of _match_stack_to_bytes on a Terminals item walks the trie
\* along the demand.  When the walk reaches a node with
\* negative_bytes_index = k it stops there and records no leaf; outcomes for
\* the tail of the demand are recorded only for the value-marked nodes that
\* lie at least k bytes before that node.  When the walk comes to the end of
\* the demand without such a node, a leaf with the replacement
\* Terminals(final) is recorded iff the final node has can_stop and
\* children, and a leaf without replacement iff the final node has a value.
\* A walk that ends at a missing child records no leaf.  With find_all the
\* call records all these outcomes, without it a first part of them.
C31_TerminalsMatching ==
    matching.called => RecordedAlong(Grammars[case].terminals_trie, WalkedNodes)

\* a walk of four bytes that stops at a node with negative_bytes_index = 3;
\* the value-marked node after the first byte lies three bytes before it and
\* gives the only outcome
C31_Witness ==
    /\ matching.called
    /\ matching.find_all
    /\ Len(matching.stack) = 2
    /\ matching.stack[1].k = "Nonterminal"
    /\ Len(WalkedNodes) = 4
    /\ TrieGet(Grammars[case].terminals_trie, WalkedNodes[4]).negative_bytes_index = 3
    /\ matching.outcome.result = <<BytesMatchResult(1, 0, NoItem)>>

\* ------------------------------------------------------------------------
\* A TerminalsTrie called by itself (src/sampler/src/trie.rs)
\* ------------------------------------------------------------------------

\* the most calls of add and except_terminal made on the trie
MaxTrieCalls == 3

\* the terminals added, the nonterminals they are added for, and the
\* terminals excepted
TrieTerminals == {<<>>, <<"a">>, <<"a", "a">>, <<"a", "a", "b">>, <<"a", "a", "a", "b">>}

TrieNonterminals == {0, 1}

TrieExcepted == {<<"a">>, <<"a", "a">>, <<"a", "a", "b">>}

\* TerminalsTrie::new, with a Sampler that is left alone
TrieInit ==
    /\ NewSamplerArena({1}, {ArenaCapacity}, FALSE)
    /\ ~stack_to_bytes_cache_enabled
    /\ ~reversed
    /\ matching = NotMatching
    /\ trie_calls = NoTrieCalls
    /\ arena_calls = NoArenaCalls

\* TerminalsTrie::add(terminal, nonterminal_id, can_stop), lines 67-104
TerminalsTrieAdd ==
    /\ trie_calls.calls < MaxTrieCalls
    /\ \E terminal \in TrieTerminals :
       \E nonterminal_id \in TrieNonterminals :
       \E can_stop \in BOOLEAN :
           trie_calls' = [trie_calls EXCEPT
               !.trie = TrieAdd(@, terminal, nonterminal_id, can_stop),
               !.calls = @ + 1,
               !.last = [NoTrieCalls.last EXCEPT !.op = "add", !.terminal = terminal,
                                                 !.nonterminal_id = nonterminal_id,
                                                 !.can_stop = can_stop]]
    /\ UNCHANGED <<case, stack_to_bytes_cache_enabled, reversed, stacks,
                   stacks_to_token_ids, token_ids, result, plain, before, accepted,
                   accepted_ids, history, stack_arena_capacity, start_nonterminal,
                   other, matching, stack_arena, arena_calls>>

\* TerminalsTrie::except_terminal(terminal, nonterminal_id), lines 106-129;
\* line 128 indexes roots with the nonterminal, which has a root
TerminalsTrieExceptTerminal ==
    /\ trie_calls.calls < MaxTrieCalls
    /\ \E terminal \in TrieExcepted :
       \E nonterminal_id \in DOMAIN trie_calls.trie.roots :
           trie_calls' = [trie_calls EXCEPT
               !.trie = ExceptLiteral(@, terminal, nonterminal_id),
               !.calls = @ + 1,
               !.excepts = @ + 1,
               !.last = [NoTrieCalls.last EXCEPT !.op = "except_terminal",
                                                 !.terminal = terminal,
                                                 !.nonterminal_id = nonterminal_id]]
    /\ UNCHANGED <<case, stack_to_bytes_cache_enabled, reversed, stacks,
                   stacks_to_token_ids, token_ids, result, plain, before, accepted,
                   accepted_ids, history, stack_arena_capacity, start_nonterminal,
                   other, matching, stack_arena, arena_calls>>

TrieNext == TerminalsTrieAdd \/ TerminalsTrieExceptTerminal

TrieSpec == TrieInit /\ [][TrieNext]_vars

\* the nodes at and below node_id, each with the bytes on the way to it from
\* the node that path leads to
RECURSIVE PathsBelow(_, _, _)
PathsBelow(trie, node_id, path) ==
    {<<path, node_id>>}
    \cup UNION { PathsBelow(trie, TrieGet(trie, node_id).children[b], Append(path, b)) :
                  b \in DOMAIN TrieGet(trie, node_id).children }

\* the nodes of the sub-trie of a nonterminal, with their paths from its root
SubTrie(trie, nonterminal_id) == PathsBelow(trie, trie.roots[nonterminal_id], <<>>)

\* C32: after any calls of add and except_terminal, for the root of every
\* nonterminal and every value-marked node below it, the bytes on the path
\* from the root to the node are the node's value, and the node's index is
\* the length of that path.
C32_TriePathInvariant ==
    \A n \in DOMAIN trie_calls.trie.roots :
        \A pn \in SubTrie(trie_calls.trie, n) :
            TrieGet(trie_calls.trie, pn[2]).has_value =>
                /\ TrieGet(trie_calls.trie, pn[2]).value = pn[1]
                /\ TrieGet(trie_calls.trie, pn[2]).index = Len(pn[1])

\* a trie after add, except_terminal and add: a value-marked node three
\* bytes below the root of a nonterminal, and a node with
\* negative_bytes_index
C32_Witness ==
    /\ trie_calls.calls = 3
    /\ trie_calls.excepts = 1
    /\ trie_calls.last.op = "add"
    /\ \E n \in DOMAIN trie_calls.trie.roots :
         \E pn \in SubTrie(trie_calls.trie, n) :
             /\ TrieGet(trie_calls.trie, pn[2]).has_value
             /\ Len(pn[1]) = 3
    /\ \E x \in 1..Len(trie_calls.trie.arena) :
         trie_calls.trie.arena[x].negative_bytes_index # NoNegativeIndex

\* the node that the bytes of terminal lead to from the root of the
\* nonterminal, NoNode when a child is missing
NoNode == 0 - 1

ReachedNode(trie, nonterminal_id, terminal) ==
    IF Len(NodesAlong(trie, trie.roots[nonterminal_id], terminal)) < Len(terminal) THEN NoNode
    ELSE IF terminal = <<>> THEN trie.roots[nonterminal_id]
    ELSE NodesAlong(trie, trie.roots[nonterminal_id], terminal)[Len(terminal)]

\* what add has left on the node reached: the value and the can_stop of the
\* call
AddLeft(node, terminal, can_stop) ==
    /\ node.has_value
    /\ node.value = terminal
    /\ node.can_stop = can_stop

\* C33: after add(bytes, nonterminal, can_stop) has returned, the node
\* reached by the bytes from the root of the nonterminal has value = bytes
\* and its can_stop is the can_stop of the call, also when the node or the
\* root was there from an earlier add with another can_stop.
C33_AddMarksNode ==
    trie_calls.last.op = "add" =>
        /\ ReachedNode(trie_calls.trie, trie_calls.last.nonterminal_id,
                       trie_calls.last.terminal) # NoNode
        /\ AddLeft(TrieGet(trie_calls.trie,
                           ReachedNode(trie_calls.trie, trie_calls.last.nonterminal_id,
                                       trie_calls.last.terminal)),
                   trie_calls.last.terminal, trie_calls.last.can_stop)

\* the sub-strings that end a path
EndsWith(path, terminal) ==
    Len(path) >= Len(terminal) /\ Tail0(path, Len(path) - Len(terminal)) = terminal

\* C34: after except_terminal(L, N), the first on the trie, every node of the
\* sub-trie of N whose path from the root ends with the bytes of L has
\* negative_bytes_index = len(L), and no other node of the trie has a
\* negative_bytes_index.
C34_ExceptMarksEveryOccurrence ==
    (trie_calls.last.op = "except_terminal" /\ trie_calls.excepts = 1) =>
        /\ \A pn \in SubTrie(trie_calls.trie, trie_calls.last.nonterminal_id) :
             IF EndsWith(pn[1], trie_calls.last.terminal)
             THEN TrieGet(trie_calls.trie, pn[2]).negative_bytes_index
                    = Len(trie_calls.last.terminal)
             ELSE TrieGet(trie_calls.trie, pn[2]).negative_bytes_index = NoNegativeIndex
        /\ \A x \in 1..Len(trie_calls.trie.arena) :
             trie_calls.trie.arena[x].negative_bytes_index # NoNegativeIndex =>
                \E pn \in SubTrie(trie_calls.trie, trie_calls.last.nonterminal_id) :
                    pn[2] = x - 1

\* ------------------------------------------------------------------------
\* TerminalsTrie::iter called by itself (src/src/trie.rs)
\* ------------------------------------------------------------------------

\* the most calls of add that build the trie that is iterated
MaxIterAdds == 3

\* the tries that up to n calls of add build; add of src/src/trie.rs has no
\* can_stop, which iter does not read
RECURSIVE TriesAfter(_)
TriesAfter(n) ==
    IF n = 0 THEN {EmptyTrie}
    ELSE TriesAfter(n - 1)
         \cup { TrieAdd(t, terminal, nonterminal_id, FALSE) :
                  t \in TriesAfter(n - 1), terminal \in TrieTerminals,
                  nonterminal_id \in TrieNonterminals }

\* the order in which a child map is iterated: increasing byte value or its
\* reverse
ChildKeys(S, backwards) == IF backwards THEN Reverse(SortedBytesOf(S)) ELSE SortedBytesOf(S)

\* A variant of next that does not push the children of the node it has
\* come to
RECURSIVE TrieIterNextAmongChildren(_, _, _, _, _)
TrieIterNextAmongChildren(trie, node_id, keys, initial_index, backwards) ==
    IF keys = <<>> THEN <<>>
    ELSE (IF TrieGet(trie, TrieGet(trie, node_id).children[Head(keys)]).has_value
          THEN <<Tail0(TrieGet(trie, TrieGet(trie, node_id).children[Head(keys)]).value,
                       initial_index)>>
          ELSE <<>>)
         \o TrieIterNextAmongChildren(trie, node_id, Tail(keys), initial_index, backwards)

\* TerminalsTrieIter::next, lines 19-38, run until it returns None: keys
\* is what is left of the iterator of the children of node_id on top of the
\* stack; the iterators below it are the callers of the recursion
RECURSIVE TrieIterNext(_, _, _, _, _)
TrieIterNext(trie, node_id, keys, initial_index, backwards) ==
    IF keys = <<>> THEN <<>>
    ELSE LET v == TrieGet(trie, node_id).children[Head(keys)]
         IN  (IF TrieGet(trie, v).has_value
              THEN <<Tail0(TrieGet(trie, v).value, initial_index)>> ELSE <<>>)
             \o TrieIterNext(trie, v, ChildKeys(DOMAIN TrieGet(trie, v).children, backwards),
                         initial_index, backwards)
             \o TrieIterNext(trie, node_id, Tail(keys), initial_index, backwards)

\* a trie, a node of it and an order of the child maps
IterInit ==
    /\ NewSamplerArena({1}, {ArenaCapacity}, FALSE)
    /\ ~stack_to_bytes_cache_enabled
    /\ ~reversed
    /\ matching = NotMatching
    /\ arena_calls = NoArenaCalls
    /\ \E t \in TriesAfter(MaxIterAdds) :
       \E start_node_id \in 0..(Len(t.arena) - 1) :
       \E backwards \in BOOLEAN :
           trie_calls = [NoTrieCalls EXCEPT !.trie = t, !.last.node = start_node_id,
                                            !.last.backwards = backwards]

\* TerminalsTrie::iter(start_node_id), lines 103-110, and the calls of next
\* until None
TerminalsTrieIter ==
    /\ trie_calls.last.op = "new"
    /\ trie_calls.trie.arena # <<>>
    /\ trie_calls' = [trie_calls EXCEPT
           !.last.op = "iter",
           !.last.yielded =
               TrieIterNext(trie_calls.trie, trie_calls.last.node,
                        ChildKeys(DOMAIN TrieGet(trie_calls.trie,
                                                 trie_calls.last.node).children,
                                  trie_calls.last.backwards),
                        TrieGet(trie_calls.trie, trie_calls.last.node).index,
                        trie_calls.last.backwards)]
    /\ UNCHANGED <<case, stack_to_bytes_cache_enabled, reversed, stacks,
                   stacks_to_token_ids, token_ids, result, plain, before, accepted,
                   accepted_ids, history, stack_arena_capacity, start_nonterminal,
                   other, matching, stack_arena, arena_calls>>

IterNext == TerminalsTrieIter

IterSpec == IterInit /\ [][IterNext]_vars

\* the paths from the start node of the call of iter to the value-marked
\* nodes below it, and to those at or below it
ValuePathsUnder ==
    { pn[1] : pn \in { pn \in PathsBelow(trie_calls.trie, trie_calls.last.node, <<>>) :
                         /\ pn[1] # <<>>
                         /\ TrieGet(trie_calls.trie, pn[2]).has_value } }

ValuePathsAtOrUnder ==
    { pn[1] : pn \in { pn \in PathsBelow(trie_calls.trie, trie_calls.last.node, <<>>) :
                         TrieGet(trie_calls.trie, pn[2]).has_value } }

\* yielded holds each byte string of S once and nothing else
YieldsOnce(yielded, S) ==
    /\ SeqToSet(yielded) = S
    /\ Len(yielded) = Cardinality(S)

\* C35 as the claim has it: iter(node_id) yields, once each, the terminal of
\* every value-marked node at or under node_id, with the bytes of the path
\* from the root to node_id taken off, for every order of the child maps.
C35_IterAtOrUnder ==
    trie_calls.last.op = "iter" => YieldsOnce(trie_calls.last.yielded, ValuePathsAtOrUnder)

\* C35: iter(node_id) comes to an end and yields, once each, the terminal of
\* every value-marked node under node_id, with the bytes of the path from the
\* root to node_id taken off, for every order of the child maps; the
\* terminal of node_id itself is not yielded.
C35_IterUnder ==
    trie_calls.last.op = "iter" => YieldsOnce(trie_calls.last.yielded, ValuePathsUnder)

\* iter from a value-marked node that is no root, with the child maps in
\* reverse order: the terminals below it are yielded
C35_Witness ==
    /\ trie_calls.last.op = "iter"
    /\ trie_calls.last.backwards
    /\ TrieGet(trie_calls.trie, trie_calls.last.node).has_value
    /\ TrieGet(trie_calls.trie, trie_calls.last.node).index = 1
    /\ Len(trie_calls.last.yielded) = 2

\* ------------------------------------------------------------------------
\* A StackArena called by itself (src/sampler/src/stack.rs)
\* ------------------------------------------------------------------------

\* the largest capacity given to with_capacity
MaxArenaSlots == 3

\* the most calls made on the arena and its stacks
MaxArenaCalls == 4

\* Option<T>::None in a slot, and the values of T pushed
NoValue == "None"

ArenaValues == {"x", "y"}

\* the slots of the Stack s of arena state a, and the values it holds
StackSlots(s) == (s.start + 1)..(s.start + s.capacity)

StackContents(a, s) == SubSeq(a.arena, s.start + 1, s.start + s.top)

\* StackArena::with_capacity, lines 10-17
StackArenaWithCapacity(capacity) ==
    [NoArenaCalls EXCEPT !.arena = [i \in 1..capacity |-> NoValue],
                         !.last.op = "with_capacity", !.last.capacity = capacity]

\* A variant of allocate_a_stack without line 21: the watermark stays
StackArenaAllocateWithoutAdvance(a, capacity) ==
    [a EXCEPT !.stacks = Append(@, [start |-> a.current_ptr, capacity |-> capacity,
                                    top |-> 0])]

\* StackArena::allocate_a_stack, lines 19-23, when the slice of line 20 lies
\* in the arena
StackArenaAllocate(a, capacity) ==
    [a EXCEPT !.current_ptr = @ + capacity,
              !.stacks = Append(@, [start |-> a.current_ptr, capacity |-> capacity,
                                    top |-> 0])]

\* StackArena::clear, lines 25-30; the Stack values borrowed from the arena
\* are given up before
StackArenaClear(a) ==
    [a EXCEPT !.arena = [i \in 1..Len(a.arena) |->
                            IF i <= a.current_ptr THEN NoValue ELSE a.arena[i]],
              !.current_ptr = 0,
              !.stacks = <<>>]

\* Stack::push, lines 56-59, on stack x when buffer[top] is in the buffer
StackPush(a, x, value) ==
    [a EXCEPT !.arena[a.stacks[x].start + a.stacks[x].top + 1] = value,
              !.stacks[x].top = @ + 1]

\* Stack::pop, lines 60-69, on stack x
StackPop(a, x) ==
    IF a.stacks[x].top = 0 THEN a
    ELSE [a EXCEPT !.arena[a.stacks[x].start + a.stacks[x].top] = NoValue,
                   !.stacks[x].top = @ - 1]

\* a call on the arena: what it leaves, and itself as last with the arena
\* as it was before
ArenaCall(a, op, capacity, stack, value) ==
    arena_calls' = [a EXCEPT !.calls = arena_calls.calls + 1,
                             !.last = [op |-> op, capacity |-> capacity, stack |-> stack,
                                       value |-> value,
                                       before |-> <<[arena_calls EXCEPT !.last = NoArenaCalls.last]>>]]

ArenaCanCall == arena_calls.calls < MaxArenaCalls /\ arena_calls.last.op # "panic"

ArenaOnly ==
    UNCHANGED <<case, stack_to_bytes_cache_enabled, reversed, stacks,
                stacks_to_token_ids, token_ids, result, plain, before, accepted,
                accepted_ids, history, stack_arena_capacity, start_nonterminal,
                other, matching, stack_arena, trie_calls>>

StackArenaInit ==
    /\ NewSamplerArena({1}, {ArenaCapacity}, FALSE)
    /\ ~stack_to_bytes_cache_enabled
    /\ ~reversed
    /\ matching = NotMatching
    /\ trie_calls = NoTrieCalls
    /\ \E capacity \in 0..MaxArenaSlots : arena_calls = StackArenaWithCapacity(capacity)

\* allocate_a_stack(capacity): the slice of line 20 panics when it reaches
\* beyond the arena, before the watermark is moved
AllocateAStack ==
    /\ ArenaCanCall
    /\ \E capacity \in 0..(MaxArenaSlots + 1) :
         IF arena_calls.current_ptr + capacity > Len(arena_calls.arena)
         THEN ArenaCall(arena_calls, "panic", capacity, 0, NoValue)
         ELSE ArenaCall(StackArenaAllocate(arena_calls, capacity), "allocate_a_stack",
                        capacity, Len(arena_calls.stacks) + 1, NoValue)
    /\ ArenaOnly

\* clear()
Clear ==
    /\ ArenaCanCall
    /\ ArenaCall(StackArenaClear(arena_calls), "clear", 0, 0, NoValue)
    /\ ArenaOnly

\* push(value) on one of the stacks: line 57 panics when top is the length
\* of the buffer
Push ==
    /\ ArenaCanCall
    /\ \E x \in 1..Len(arena_calls.stacks) :
       \E value \in ArenaValues :
         IF arena_calls.stacks[x].top = arena_calls.stacks[x].capacity
         THEN ArenaCall(arena_calls, "panic", 0, x, value)
         ELSE ArenaCall(StackPush(arena_calls, x, value), "push", 0, x, value)
    /\ ArenaOnly

\* pop() on one of the stacks
Pop ==
    /\ ArenaCanCall
    /\ \E x \in 1..Len(arena_calls.stacks) :
         ArenaCall(StackPop(arena_calls, x), "pop", 0, x, NoValue)
    /\ ArenaOnly

StackArenaNext == AllocateAStack \/ Clear \/ Push \/ Pop

StackArenaSpec == StackArenaInit /\ [][StackArenaNext]_vars

\* the arena before the last call
ArenaBefore == arena_calls.last.before[1]

\* C36: in every state of the arena 0 <= watermark <= capacity;
\* allocate_a_stack(c) returns a stack of length 0 and capacity c and moves
\* the watermark on by c; clear() sets the watermark to 0 and empties every
\* slot; two stacks allocated between two calls of clear() lie on disjoint
\* slots, so that a push on one leaves the contents of every other as they
\* were.
C36_ArenaWatermark ==
    /\ 0 <= arena_calls.current_ptr
    /\ arena_calls.current_ptr <= Len(arena_calls.arena)
    /\ arena_calls.last.op = "allocate_a_stack" =>
         /\ arena_calls.stacks[arena_calls.last.stack].top = 0
         /\ arena_calls.stacks[arena_calls.last.stack].capacity = arena_calls.last.capacity
         /\ arena_calls.current_ptr = ArenaBefore.current_ptr + arena_calls.last.capacity
    /\ arena_calls.last.op = "clear" =>
         /\ arena_calls.current_ptr = 0
         /\ \A i \in 1..Len(arena_calls.arena) : arena_calls.arena[i] = NoValue
    /\ \A x, y \in 1..Len(arena_calls.stacks) :
         x # y => StackSlots(arena_calls.stacks[x]) \cap StackSlots(arena_calls.stacks[y]) = {}
    /\ arena_calls.last.op = "push" =>
         /\ arena_calls.arena[arena_calls.stacks[arena_calls.last.stack].start
                              + arena_calls.stacks[arena_calls.last.stack].top]
              = arena_calls.last.value
         /\ \A y \in 1..Len(arena_calls.stacks) :
              y # arena_calls.last.stack =>
                StackContents(arena_calls, arena_calls.stacks[y])
                  = StackContents(ArenaBefore, ArenaBefore.stacks[y])

\* two stacks with a slot each, allocated one after the other, each with a
\* value pushed: the push on the second has left the first as it was
C36_Witness ==
    /\ arena_calls.last.op = "push"
    /\ arena_calls.last.stack = 2
    /\ Len(arena_calls.stacks) = 2
    /\ arena_calls.stacks[1].capacity >= 1
    /\ StackContents(arena_calls, arena_calls.stacks[1]) = <<"x">>
    /\ StackContents(arena_calls, arena_calls.stacks[2]) = <<"y">>

\* ------------------------------------------------------------------------
\* Grammar::new: what it leaves in the Grammar
\* ------------------------------------------------------------------------

\* the schemas whose Grammar is looked at: one with nonterminals of single
\* terminals, one with adjacent terminals, one with any! and one with
\* except!('literal')
GrammarCaseIds ==
    {c \in 1..Len(AllCases) :
        AllCases[c] \in {DnaCase, RepeatCase, AnyScenarioCase, ExceptCase}}

GrammarInit == New(GrammarCaseIds, {ArenaCapacity}, FALSE)

GrammarSpec == GrammarInit /\ [][Next]_vars

\* the any! and except! nonterminals, whose right-hand sides add_tokens
\* makes of the vocabulary
MacroNames ==
    {ANY_NONTERMINAL_NAME} \cup DOMAIN ExceptedLiteral \cup DOMAIN ExceptedNonterminal

\* the right-hand sides that the schema gives to a nonterminal, as written
WrittenAlts(prods, name) ==
    UNION { {prods[p].rhs[a] : a \in 1..Len(prods[p].rhs)} :
              p \in {x \in 1..Len(prods) : prods[x].lhs = name} }

\* a right-hand side of terminals only, which the merge of adjacent
\* terminals makes a single terminal, and the bytes of that terminal
OnlyTerminals(alt) == alt # <<>> /\ \A k \in 1..Len(alt) : alt[k].t = "Terminal"

RECURSIVE JoinedBytes(_)
JoinedBytes(alt) ==
    IF alt = <<>> THEN <<>> ELSE Head(alt).bytes \o JoinedBytes(Tail(alt))

\* the terminals of a nonterminal whose right-hand sides are single
\* terminals: those of the schema, or for any! and except! the tokens whose
\* ids add_tokens has recorded, which are the tokens it has made right-hand
\* sides (grammar.rs, lines 128-177)
TerminalsOf(c, g, name) ==
    IF name \in MacroNames
    THEN {id_to_token(AllCases[c].vocab, id) :
            id \in g.nonterminal_to_token_ids[g.nonterminal_to_terminal_id[name]]}
    ELSE {JoinedBytes(alt) : alt \in WrittenAlts(AllCases[c].input, name)}

\* the same, with every token of the vocabulary for an except! nonterminal
TerminalsOrTokensOf(c, name) ==
    IF name \in MacroNames
    THEN SeqToSet(AllCases[c].vocab)
    ELSE {JoinedBytes(alt) : alt \in WrittenAlts(AllCases[c].input, name)}

\* the paths from the root of a nonterminal to the value-marked nodes of its
\* sub-trie
ValueMarkedPaths(trie, nonterminal_id) ==
    { pn[1] : pn \in { pn \in SubTrie(trie, nonterminal_id) :
                         TrieGet(trie, pn[2]).has_value } }

\* no two Terminal atoms stand side by side
NoAdjacentTerminals(alt) ==
    \A k \in 1..(Len(alt) - 1) : ~(alt[k].t = "Terminal" /\ alt[k + 1].t = "Terminal")

\* the classification of one nonterminal of the Grammar g of case c, its
\* terminals given
Classified(c, g, name, id, terminals) ==
    /\ (g.nonterminal_id_to_expression[id].kind = "Terminals")
          <=> (name \in MacroNames
               \/ \A alt \in WrittenAlts(AllCases[c].input, name) : OnlyTerminals(alt))
    /\ g.nonterminal_id_to_expression[id].kind = "Terminals" =>
          /\ g.nonterminal_id_to_expression[id].node = g.terminals_trie.roots[id]
          /\ ValueMarkedPaths(g.terminals_trie, id) = terminals
    /\ g.nonterminal_id_to_expression[id].kind # "Terminals" =>
          /\ g.nonterminal_id_to_expression[id].kind = "Expressions"
          /\ \A k \in 1..Len(g.nonterminal_id_to_expression[id].alts) :
                 NoAdjacentTerminals(g.nonterminal_id_to_expression[id].alts[k])

\* every nonterminal of the Grammar g of case c is classified so; all_tokens
\* tells whether the sub-trie of an any! or except! nonterminal is held
\* against all the tokens of the vocabulary or against its right-hand sides
GrammarClassified(c, g, all_tokens) ==
    ~g.panicked =>
        \A name \in DOMAIN g.nonterminal_to_terminal_id :
            Classified(c, g, name, g.nonterminal_to_terminal_id[name],
                       IF all_tokens THEN TerminalsOrTokensOf(c, name) ELSE TerminalsOf(c, g, name))

\* C38 as stated: in the Grammar that Grammar::new returns, a nonterminal is
\* Terminals(root) if and only if every one of its right-hand sides is a
\* single terminal, and then the value-marked paths under its root are
\* exactly its terminals; every other nonterminal is Expressions with no two
\* adjacent Terminal atoms in a right-hand side
C38_CollapseExactTerminals == GrammarClassified(case, Grammars[case], FALSE)

\* C38, amended: the same, but under the root of an any! or except!
\* nonterminal the value-marked paths are all the tokens of the vocabulary,
\* those that the right-hand sides of an except! nonterminal leave out
\* among them
C38_CollapseClassification == GrammarClassified(case, Grammars[case], TRUE)

\* the Grammar g of <s> ::= '"' <body> '"', <body> ::= <c><body> | '',
\* <c> ::= <except!('"')>: s, body and c are Expressions, the except!
\* nonterminal is Terminals, and its sub-trie holds a token that is none of
\* its right-hand sides
CollapsedAndExcepting(c, g) ==
    /\ ~g.panicked
    /\ \A name \in {"s", "body", "c"} :
           g.nonterminal_id_to_expression[g.nonterminal_to_terminal_id[name]].kind = "Expressions"
    /\ g.nonterminal_id_to_expression[g.nonterminal_to_terminal_id[ExceptLiteralName]].kind = "Terminals"
    /\ \E t \in ValueMarkedPaths(g.terminals_trie, g.nonterminal_to_terminal_id[ExceptLiteralName]) :
           t \notin TerminalsOf(c, g, ExceptLiteralName)

\* an engine on that Grammar has answered a query
C38_Witness ==
    /\ case = ExceptCaseId
    /\ result.op = "next"
    /\ CollapsedAndExcepting(case, Grammars[case])

\* ------------------------------------------------------------------------
\* The token ids recorded for any! and except!('literal')
\* ------------------------------------------------------------------------

\* the except!('literal') nonterminals of the Grammar g
LiteralExceptsOf(g) == DOMAIN ExceptedLiteral \cap DOMAIN g.nonterminal_to_terminal_id

\* the ids recorded for any! are those of all tokens, and the ids recorded
\* for except!('L') are those of the tokens that neither are L nor contain L
RecordedIdSets(vocab, g) ==
    /\ ANY_NONTERMINAL_NAME \in DOMAIN g.nonterminal_to_terminal_id =>
          g.nonterminal_to_token_ids[g.nonterminal_to_terminal_id[ANY_NONTERMINAL_NAME]]
              = TokenIds(vocab)
    /\ \A name \in LiteralExceptsOf(g) :
          g.nonterminal_to_token_ids[g.nonterminal_to_terminal_id[name]]
              = {id \in TokenIds(vocab) :
                   /\ id_to_token(vocab, id) # ExceptedLiteral[name]
                   /\ ~Contains(id_to_token(vocab, id), ExceptedLiteral[name])}

\* the call m of _match_stack_to_bytes has run on the root of the sub-trie
\* of an except!('literal') nonterminal, alone on the stack, and on the
\* bytes of a token from their start
MatchedTokenAtRoot(vocab, g, m, name) ==
    /\ m.called
    /\ m.stack = <<StackItemTerminals(g.terminals_trie.roots[g.nonterminal_to_terminal_id[name]])>>
    /\ m.bytes_index = 0
    /\ m.bytes \in SeqToSet(vocab)

\* the call has taken its bytes as one complete terminal: it has left a
\* result with no item to put back
CompleteTerminal(m) ==
    \E x \in 1..Len(m.outcome.result) :
        /\ m.outcome.result[x].modified_item_at_offset = NoItem
        /\ m.outcome.result[x].stack_offset = 0

\* C39: nonterminal_to_token_ids[any!] is the set of all token ids; for
\* except!('L') the ids recorded are exactly those of the tokens that neither
\* are L nor contain L, and these are exactly the tokens that
\* _match_stack_to_bytes takes as one complete terminal of the nonterminal
C39_TokenIdSets ==
    /\ RecordedIdSets(Vocab(case), Grammars[case])
    /\ \A name \in LiteralExceptsOf(Grammars[case]) :
          MatchedTokenAtRoot(Vocab(case), Grammars[case], matching, name) =>
              (CompleteTerminal(matching)
                 <=> token_to_id(Vocab(case), matching.bytes)
                       \in Grammars[case].nonterminal_to_token_ids[Grammars[case].nonterminal_to_terminal_id[name]])

\* ------------------------------------------------------------------------
\* The arena of the Sampler between calls
\* ------------------------------------------------------------------------

\* C37: when accept_a_token or all_possible_next_tokens has ended, whatever
\* its result, the watermark of stack_arena is 0.  (What outlives the call
\* holds no arena storage by construction: the stacks pushed are Vecs built
\* by the closure of lines 347-356, the key of stacks_to_token_ids is a clone
\* of self.stacks; the model keeps them as values.)
C37_ArenaResetBetweenCalls ==
    result.op \in {"accept", "next"} => stack_arena.current_ptr = 0

=============================================================================
